---- MODULE Spec2Model ----
(***************************************************************************)
(* A model of the MoSP-GeoTool core: the OSM data representation           *)
(* (geo/osm_import.py), the geometry kernel (geo/geo_utils.py), the         *)
(* partition engine (app/partition.py), the line generalizer               *)
(* (app/douglas_peucker.py, app/generalize.py) and the menu handlers of    *)
(* gui/main_window.py that drive them.                                     *)
(*                                                                         *)
(* Coordinates are integers on a planar grid (one grid unit = one metre,   *)
(* lon = x, lat = y); the UTM projection of a node is the node's grid      *)
(* position and the geodesic distance is the Euclidean one.                *)
(***************************************************************************)
EXTENDS Integers, Sequences, FiniteSets, TLC

\* ---------------------------------------------------------------- bounds
\* number of ways of the imported file
MaxWays == 3
\* number of ways of an imported file whose network is edited
MaxEditWays == 2
\* largest tolerance / threshold value a dialogue passes to the core
MaxTolerance == 3
\* longest way segment handed to douglas_peucker on its own
MaxSegLen == 4
\* longest stack of douglas_peucker that is followed
MaxStack == 5
\* the search distance the connection dialogues pass
SearchThreshold == 6
\* the size threshold the partition dialogue passes when it is not 0
SizeThreshold == 3
\* the largest connection threshold the partition dialogue passes
MaxConnections == 2
\* a search distance that does not reach from a node of the imported file to
\* a street it is not on
ShortSearch == 2

\* number of new nodes and streets of a session that are followed where the
\* calls on the store are taken one by one
MaxNewObjects == 3

\* number of ids find_new_key has given out after which no further
\* connecting handler is followed
MaxNewKeys == 4

\* ------------------------------------------------------ generic helpers
SeqToSet(s) == {s[i] : i \in 1..Len(s)}

Abs(x) == IF x < 0 THEN -x ELSE x

MinOf(S) == CHOOSE x \in S : \A y \in S : x <= y

MaxOf(S) == CHOOSE x \in S : \A y \in S : x >= y

\* list.index(x, start): first position >= start holding x, 0 when absent
\* (positions are 1-based here, Python's are 0-based)
IndexFrom(s, x, start) ==
  IF \E i \in start..Len(s) : s[i] = x
    THEN MinOf({i \in start..Len(s) : s[i] = x})
    ELSE 0

\* list.remove(x): drops the first occurrence of x
RemoveFirst(s, x) ==
  LET i == IndexFrom(s, x, 1)
  IN IF i = 0 THEN s
     ELSE SubSeq(s, 1, i - 1) \o SubSeq(s, i + 1, Len(s))

\* list.insert(i, x) with a 1-based position i
InsertAt(s, i, x) == SubSeq(s, 1, i - 1) \o <<x>> \o SubSeq(s, i, Len(s))

\* all orderings of a finite set, as sequences
RECURSIVE Perms(_)
Perms(S) ==
  IF S = {} THEN {<<>>}
  ELSE UNION {{<<x>> \o p : p \in Perms(S \ {x})} : x \in S}

\* ------------------------------------------------------- the input file
\* nodes of the imported file: id -> (lon, lat)
FileNodes ==
  (1 :> <<0, 0>>) @@ (2 :> <<4, 0>>) @@ (3 :> <<8, 0>>) @@
  (4 :> <<4, 3>>) @@ (5 :> <<0, 6>>) @@ (6 :> <<8, 6>>)

\* ways the imported file may hold: id -> node references
FileWays ==
  (11 :> <<1, 2>>) @@ (12 :> <<2, 3>>) @@ (13 :> <<2, 4, 3>>) @@
  (14 :> <<1, 4, 6>>) @@ (15 :> <<5, 6>>) @@ (16 :> <<1, 2, 4, 3>>) @@
  (17 :> <<1, 3>>) @@ (18 :> <<4, 6>>)

\* values of the highway tag
HighwayTypes == {"residential", "motorway"}

\* highway types the filter dialogue offers (two of its four check boxes)
FilterTypes == {"motorway", "trunk"}

\* the highway tag of each way of FileWays
FileHighway ==
  (11 :> "residential") @@ (12 :> "residential") @@ (13 :> "motorway") @@
  (14 :> "motorway") @@ (15 :> "residential") @@ (16 :> "residential") @@
  (17 :> "motorway") @@ (18 :> "residential")

\* the nodes of the file that carry the tag amenity=cafe
FileCafes == {4, 5}

\* an imported file: some of the ways, each with its highway type
FilesOf(count) ==
  {[id \in ids |-> FileHighway[id]] :
     ids \in {s \in SUBSET DOMAIN FileWays :
                Cardinality(s) >= 1 /\ Cardinality(s) <= count}}

Files == FilesOf(MaxWays)

\* ----------------------------------------------------------- variables
VARIABLES
  osm,    \* OSM_objects: nodes, ways (the objects), node_avl, way_avl,
          \* street_tree, generalized
  pf,     \* PartitionFinder: exists, partitions, partition_id,
          \* largest_partition, recalculate, filtered_streets (the list
          \* holds no way twice and only its members matter: a set)
  menu,   \* sensitivity of the Edit menu items of MainWindow
  last,   \* the handler that ran last, with the values it was given and
          \* what its calls returned
  dp,     \* a call of douglas_peucker in progress: its arguments and its
          \* locals new_way, stack, anchor, floater
  cp,     \* a call of PartitionFinder.connect_partitions in progress: its
          \* argument, its local parts, and what its passes did
  poi     \* Poi.__poi_nodes of the Poi object of MainWindow ({} before the
          \* first selection)

vars == <<osm, pf, menu, last, dp, cp, poi>>

\* a computation state: the store, the partition finder, the exception
\* that ended the running handler ("" while none was raised), the value
\* the last call returned (an id; 0 stands for None and for False) and the
\* record of the calls of connect_by_node and connect_by_projection that
\* returned: their arguments, the store before and after, what they returned
Ctx(o, p) == [osm |-> o, pf |-> p, err |-> "", ret |-> 0, calls |-> <<>>]

Called(g0, g1, fn, args) ==
  IF g1.err # "" THEN g1
  ELSE [g1 EXCEPT !.calls = Append(@, [fn |-> fn, args |-> args,
                                        before |-> g0.osm, after |-> g1.osm,
                                        ret |-> g1.ret])]

Raise(g, e) == [g EXCEPT !.err = e]

\* ------------------------------------------------ Node, Way (osm_import)
NewNode(lon, lat) ==
  [lon |-> lon, lat |-> lat, neighbours |-> <<>>, partition_id |-> 0,
   filtered |-> FALSE, poi |-> 0, cafe |-> FALSE]

\* the loop of Way.__init__ over consecutive node pairs of a street:
\* osm_node.neighbours.append(last_node); last_node.neighbours.append(osm_node)
RECURSIVE LinkNeighbours(_, _, _)
LinkNeighbours(nodes, refs, i) ==
  IF i > Len(refs) THEN nodes
  ELSE LET a == refs[i - 1]
           b == refs[i]
           n1 == [nodes EXCEPT ![b].neighbours = Append(@, a)]
           n2 == [n1 EXCEPT ![a].neighbours = Append(@, b)]
       IN LinkNeighbours(n2, refs, i + 1)

\* bounding box of a way: [min_lon, min_lat, max_lon, max_lat]
WayBox(nodes, refs) ==
  <<MinOf({nodes[refs[i]].lon : i \in 1..Len(refs)}),
    MinOf({nodes[refs[i]].lat : i \in 1..Len(refs)}),
    MaxOf({nodes[refs[i]].lon : i \in 1..Len(refs)}),
    MaxOf({nodes[refs[i]].lat : i \in 1..Len(refs)})>>

\* Way.__init__: the Way object (highway = "" when the way has no highway tag)
NewWay(nodes, refs, highway) ==
  [nodeIDs |-> refs, nodes |-> refs, highway |-> highway,
   partition_id |-> 0, filtered |-> FALSE, generalized |-> <<>>,
   box |-> WayBox(nodes, refs)]

\* Way.__init__ as it changes the store o: the object is created and, for a
\* street, the neighbour lists of its nodes grow
WayInit(o, id, refs, highway) ==
  [o EXCEPT
     !.ways = (id :> NewWay(o.nodes, refs, highway)) @@ @,
     !.nodes = IF highway # "" THEN LinkNeighbours(@, refs, 2) ELSE @]

\* OSM_objects.__create_ways for one way of the file
CreateWay(o, id, refs, highway) ==
  LET o1 == WayInit(o, id, refs, highway)
  IN [o1 EXCEPT
        !.street_tree = IF highway # "" THEN @ \cup {id} ELSE @,
        !.way_avl = @ \cup {id}]

\* OSM_objects.__create_ways for a way the file marks with action=delete:
\* the way has no node references, it enters the way store and the list of
\* deleted ways and no index
CreateDeletedWay(o, id, highway) ==
  [o EXCEPT
     !.ways = (id :> [nodeIDs |-> <<>>, nodes |-> <<>>, highway |-> highway,
                      partition_id |-> 0, filtered |-> FALSE,
                      generalized |-> <<>>, box |-> <<>>]) @@ @,
     !.way_delete = @ \cup {id},
     !.way_avl = @ \cup {id}]

\* the loop of __create_ways; ways gives the node references of each way,
\* file its highway tag
RECURSIVE CreateWays(_, _, _, _)
CreateWays(o, ways, file, ids) ==
  IF ids = {} THEN o
  ELSE LET id == MinOf(ids)
       IN CreateWays(CreateWay(o, id, ways[id], file[id]), ways, file,
                     ids \ {id})

\* OSM_objects.parse of a file with the given nodes and ways:
\* __create_nodes, then __create_ways
ParseInput(nodes, cafes, ways, file) ==
  LET o0 == [nodes |-> [n \in DOMAIN nodes |->
                          [NewNode(nodes[n][1], nodes[n][2])
                             EXCEPT !.cafe = n \in cafes]],
             ways |-> <<>>,
             node_avl |-> DOMAIN nodes,
             way_avl |-> {},
             street_tree |-> {},
             way_delete |-> {},
             generalized |-> {}]
  IN CreateWays(o0, ways, file, DOMAIN file)

\* OSM_objects.parse of a file that holds the nodes of FileNodes
Parse(file) == ParseInput(FileNodes, FileCafes, FileWays, file)

\* ------------------------------------------------ geometry (geo_utils)
\* A distance is kept exactly, as the pair <<n, d>> that stands for the
\* number sqrt(n / d); Inf stands for the 1e400 of the source.
Inf == <<1, 0>>

Zero == <<0, 1>>

\* a < b for two distances
DLess(a, b) == a[1] * b[2] < b[1] * a[2]

\* a < t for a distance a and an integer t (a threshold in metres)
DLessInt(a, t) == t > 0 /\ a[1] < t * t * a[2]

\* a - b < t for distances a, b and an integer t >= 0:
\* sqrt(x) - sqrt(y) < t  iff  x - y - t*t < 2*t*sqrt(y), with x = a, y = b
\* brought to the common denominator a[2] * b[2]
DDiffLessInt(a, b, t) ==
  LET den == a[2] * b[2]
      x == a[1] * b[2]
      y == b[1] * a[2]
      lhs == x - y - t * t * den
  IN IF lhs < 0 THEN TRUE
     ELSE lhs * lhs < 4 * t * t * y * den

\* 1e-7 degrees, less than one grid unit: two grid coordinates differ by at
\* most TOLERANCE exactly when they are equal
TOLERANCE == 0

\* have_same_coords: the latitude test compares point1.lat with itself
have_same_coords(point1, point2) ==
  /\ Abs(point1.lon - point2.lon) <= TOLERANCE
  /\ Abs(point1.lat - point1.lat) <= TOLERANCE

SqLen(x, y) == x * x + y * y

\* distance_points: the third component of GEOD.inv, as a distance
distance_points(point1, point2) ==
  <<SqLen(point1.lon - point2.lon, point1.lat - point2.lat), 1>>

\* __distance_point_to_line: <<distance, mode>>; mode is <<start>>, <<end>>
\* or <<start, end, projection_scalar>>, where projection_scalar is the
\* pair <<s, l2>> that stands for s / sqrt(l2)
distance_mode_point_line(nodes, line_start, line_end, point) ==
  LET a == nodes[line_start]
      b == nodes[line_end]
      q == nodes[point]
      same == have_same_coords(a, b)
      \* the segment vector before it is divided by segment_length
      sx == IF same THEN 0 ELSE b.lon - a.lon
      sy == IF same THEN 0 ELSE b.lat - a.lat
      l2 == IF same THEN 1 ELSE SqLen(sx, sy)
      dot_start == (q.lon - a.lon) * sx + (q.lat - a.lat) * sy
      dot_end == (q.lon - b.lon) * (-sx) + (q.lat - b.lat) * (-sy)
      end_sq == SqLen(q.lon - b.lon, q.lat - b.lat)
  IN IF dot_start < 0
       THEN <<distance_points(a, q), <<line_start>>>>
     ELSE IF dot_end < 0
       THEN <<distance_points(b, q), <<line_end>>>>
     ELSE <<<<Abs(end_sq * l2 - dot_end * dot_end), l2>>,
            <<line_start, line_end, <<dot_start, l2>>>>>>

distance_point_line(nodes, line_start, line_end, point) ==
  distance_mode_point_line(nodes, line_start, line_end, point)[1]

\* ------------------------------------------- app/douglas_peucker.py
\* the state of douglas_peucker before its while loop (lines 30-35);
\* positions are 1-based; turn is the parity of the number of passes the
\* while loop has made
DPStart(way_segment, tolerance) ==
  [way_segment |-> way_segment, tolerance |-> tolerance,
   new_way |-> <<way_segment[1]>>, stack |-> <<Len(way_segment)>>,
   anchor |-> 1, floater |-> Len(way_segment), turn |-> 0]

\* the for loop of lines 38-44: <<max_distance, farthest>>
RECURSIVE DPFarthest(_, _, _, _)
DPFarthest(nodes, d, i, acc) ==
  IF i >= d.floater THEN acc
  ELSE LET distance == distance_point_line(nodes,
                          d.way_segment[d.anchor],
                          d.way_segment[d.floater], d.way_segment[i])
       IN IF DLess(acc[1], distance)
            THEN DPFarthest(nodes, d, i + 1, <<distance, i>>)
            ELSE DPFarthest(nodes, d, i + 1, acc)

\* no call of douglas_peucker in progress
DPIdle ==
  [way_segment |-> <<>>, tolerance |-> 0, new_way |-> <<>>,
   stack |-> <<>>, anchor |-> 0, floater |-> 0, turn |-> 0]

\* the test of line 46: max_distance < tolerance
DPAccepts(max_distance, tolerance) == DLessInt(max_distance, tolerance)

\* one iteration of the while loop (lines 38-53)
DPStep(nodes, d) ==
  LET res == DPFarthest(nodes, d, d.anchor + 1, <<Zero, d.floater>>)
      top == d.stack[Len(d.stack)]
      popped == SubSeq(d.stack, 1, Len(d.stack) - 1)
  IN IF DPAccepts(res[1], d.tolerance)
       THEN [d EXCEPT !.new_way = Append(@, d.way_segment[top]),
                      !.stack = popped,
                      !.anchor = d.floater,
                      !.floater = IF popped # <<>>
                                    THEN popped[Len(popped)] ELSE @]
       ELSE [d EXCEPT !.floater = res[2],
                      !.stack = Append(@, res[2])]

\* the stack as it is followed: a push that leaves the floater where it was
\* (line 52 with farthest = floater) leaves anchor, floater and the outcome
\* of line 46 as they were, so every later pass pushes the floater again;
\* of such a run of equal entries on top MaxStack entries are kept
DPKept(d) ==
  IF /\ Len(d.stack) > MaxStack
     /\ d.stack[Len(d.stack)] = d.stack[Len(d.stack) - 1]
    THEN [d EXCEPT !.stack = SubSeq(@, 1, MaxStack)]
    ELSE d

RECURSIVE DPLoop(_, _)
DPLoop(nodes, d) ==
  IF d.stack = <<>> THEN d.new_way ELSE DPLoop(nodes, DPStep(nodes, d))

\* douglas_peucker, for a tolerance > 0
douglas_peucker(nodes, way_segment, tolerance) ==
  DPLoop(nodes, DPStart(way_segment, tolerance))

\* ------------------------------ new nodes and streets (osm_import)
\* OSM_objects.find_new_key (no relations); 0 stands for the ValueError of
\* min_key on an empty way tree
find_new_key(o) ==
  IF o.way_avl = {} THEN 0
  ELSE LET lowest == MinOf(o.node_avl \cup o.way_avl)
       IN IF lowest >= 0 THEN -1 ELSE lowest - 1

\* OSM_objects.insert_new_node; ret is the id of the new node
insert_new_node(g, lat, lon) ==
  LET osm_id == find_new_key(g.osm)
  IN IF osm_id = 0 THEN Raise(g, "ValueError")
     ELSE [g EXCEPT
             !.osm.nodes = (osm_id :> NewNode(lon, lat)) @@ @,
             !.osm.node_avl = @ \cup {osm_id},
             !.ret = osm_id]

\* OSM_objects.append_new_street with the tags of a footway; ret is the id
\* of the new way
append_new_street(g, nodes) ==
  LET osm_id == find_new_key(g.osm)
  IN IF osm_id = 0 THEN Raise(g, "ValueError")
     ELSE LET o1 == WayInit(g.osm, osm_id, nodes, "footway")
          IN [g EXCEPT
                !.osm = [o1 EXCEPT !.street_tree = @ \cup {osm_id},
                                   !.way_avl = @ \cup {osm_id}],
                !.ret = osm_id]

\* the ways of the building index and of the list of other ways: the ways
\* without highway tag that the file does not mark as deleted
IndexedOthers(o) ==
  {w \in o.way_avl \ o.way_delete : o.ways[w].highway = ""}

\* the nodes remove_unused_nodes takes out: without tags and referenced by
\* no way of the store's indexes
UnusedNodes(o) ==
  {n \in o.node_avl :
     /\ ~o.nodes[n].cafe
     /\ \A w \in o.street_tree \cup IndexedOthers(o) :
          n \notin SeqToSet(o.ways[w].nodes)}

\* OSM_objects.remove_unused_nodes
remove_unused_nodes(g) == [g EXCEPT !.osm.node_avl = @ \ UnusedNodes(g.osm)]

\* a Way.insert_node that leaves the ends of the segment in each other's
\* neighbour lists: the two calls of remove (lines 480, 482) are missing
insert_node_linked(g, way, segment_start, segment_end, node) ==
  LET w == g.osm.ways[way]
      index_start == IndexFrom(w.nodeIDs, segment_start, 1)
      index_end == IndexFrom(w.nodeIDs, segment_end, 2)
  IN IF index_start = 0 \/ index_end = 0 THEN Raise(g, "ValueError")
     ELSE IF ~(/\ index_start = IndexFrom(w.nodes, segment_start, 1)
               /\ index_end = IndexFrom(w.nodes, segment_end, 2)
               /\ index_start = index_end - 1)
       THEN Raise(g, "AssertionError")
     ELSE
       [g EXCEPT
          !.osm.ways[way].nodeIDs = InsertAt(@, index_end, node),
          !.osm.ways[way].nodes = InsertAt(@, index_end, node),
          !.osm.nodes = [@ EXCEPT
             ![segment_start].neighbours = Append(@, node),
             ![segment_end].neighbours = Append(@, node),
             ![node].neighbours = @ \o <<segment_start, segment_end>>]]

\* Way.insert_node
insert_node(g, way, segment_start, segment_end, node) ==
  LET w == g.osm.ways[way]
      index_start == IndexFrom(w.nodeIDs, segment_start, 1)
      index_end == IndexFrom(w.nodeIDs, segment_end, 2)
  IN IF index_start = 0 \/ index_end = 0 THEN Raise(g, "ValueError")
     ELSE IF ~(/\ index_start = IndexFrom(w.nodes, segment_start, 1)
               /\ index_end = IndexFrom(w.nodes, segment_end, 2)
               /\ index_start = index_end - 1)
       THEN Raise(g, "AssertionError")
     ELSE
       LET g1 == [g EXCEPT
                    !.osm.ways[way].nodeIDs = InsertAt(@, index_end, node),
                    !.osm.ways[way].nodes = InsertAt(@, index_end, node)]
           n0 == g1.osm.nodes
           n1 == [n0 EXCEPT ![segment_start].neighbours =
                    Append(RemoveFirst(@, segment_end), node)]
           n2 == [n1 EXCEPT ![segment_end].neighbours =
                    Append(RemoveFirst(@, segment_start), node)]
           n3 == [n2 EXCEPT ![node].neighbours =
                    @ \o <<segment_start, segment_end>>]
       IN IF IndexFrom(n0[segment_start].neighbours, segment_end, 1) = 0
            THEN Raise(g1, "ValueError")
          ELSE IF IndexFrom(n1[segment_end].neighbours, segment_start, 1) = 0
            THEN Raise([g1 EXCEPT !.osm.nodes = n1], "ValueError")
          ELSE [g1 EXCEPT !.osm.nodes = n3]

\* ---------------------------------------- connecting (geo_utils 279-424)
\* x / y rounded to the nearest integer, y > 0: the grid's counterpart of
\* float('%.7f' % value)
RoundDiv(x, y) == (2 * x + y) \div (2 * y)

\* distance_node_street: <<min_dist, min_mode>>; <<>> stands for None
RECURSIVE NodeStreetLoop(_, _, _, _, _)
NodeStreetLoop(nodes, node, snodes, i, acc) ==
  IF i >= Len(snodes) THEN acc
  ELSE LET dm == distance_mode_point_line(nodes, snodes[i], snodes[i + 1],
                                          node)
       IN NodeStreetLoop(nodes, node, snodes, i + 1,
                         IF DLess(dm[1], acc[1]) THEN dm ELSE acc)

distance_node_street(g, node, street) ==
  NodeStreetLoop(g.osm.nodes, node, g.osm.ways[street].nodes, 1,
                 <<Inf, <<>>>>)

\* get_nearest_street_node for the nodes of one street:
\* <<nearest_node, min_dist>>
RECURSIVE NearestNodeLoop(_, _, _, _, _)
NearestNodeLoop(nodes, node, snodes, i, acc) ==
  IF i > Len(snodes) THEN acc
  ELSE LET distance == distance_points(nodes[node], nodes[snodes[i]])
       IN NearestNodeLoop(nodes, node, snodes, i + 1,
                          IF DLess(distance, acc[2])
                            THEN <<snodes[i], distance>> ELSE acc)

\* get_nearest_street_node(node, streets)
RECURSIVE get_nearest_street_node(_, _, _, _)
get_nearest_street_node(g, node, streets, acc) ==
  IF streets = <<>> THEN acc
  ELSE get_nearest_street_node(g, node, Tail(streets),
         NearestNodeLoop(g.osm.nodes, node, g.osm.ways[Head(streets)].nodes,
                         1, acc))

\* get_nearest_street(node, streets): <<nearest_street, min_dist,
\* nearest_mode>>, acc the three locals; 0 stands for the street None
RECURSIVE get_nearest_street(_, _, _, _)
get_nearest_street(g, node, streets, acc) ==
  IF streets = <<>> THEN acc
  ELSE LET dm == distance_node_street(g, node, Head(streets))
       IN get_nearest_street(g, node, Tail(streets),
            IF DLess(dm[1], acc[2]) THEN <<Head(streets), dm[1], dm[2]>>
            ELSE acc)

\* a connect_by_node that labels the new street and leaves the node as it
\* was: line 423 is missing
LabelNewStreetOnly(g1, node, street_node) ==
  IF g1.err # "" THEN g1
  ELSE [g1 EXCEPT !.osm.ways[g1.ret].partition_id =
          IF g1.osm.nodes[node].partition_id > 0
            THEN g1.osm.nodes[node].partition_id
            ELSE g1.osm.nodes[street_node].partition_id]

\* connect_by_node after append_new_street (lines 413-423): g1 is the state
\* append_new_street left, its ret the new street
LabelNewStreet(g1, node, street_node) ==
  IF g1.err # "" THEN g1
  ELSE IF g1.osm.nodes[node].partition_id > 0
    THEN [g1 EXCEPT !.osm.ways[g1.ret].partition_id =
                       g1.osm.nodes[node].partition_id]
  ELSE [g1 EXCEPT !.osm.ways[g1.ret].partition_id =
                     g1.osm.nodes[street_node].partition_id,
                  !.osm.nodes[node].partition_id =
                     g1.osm.nodes[street_node].partition_id]

\* the body of connect_by_node; ret is the id of the new street
ConnectByNode(g, node, street_node) ==
  LabelNewStreet(append_new_street(g, <<node, street_node>>), node,
                 street_node)

\* connect_by_node, recorded
connect_by_node(g, node, street_node) ==
  Called(g, ConnectByNode(g, node, street_node), "connect_by_node",
         <<node, street_node>>)

\* the coordinate of the projected point (lines 378-381), c0 and c1 the
\* coordinates of the start and the end of the segment
Projected(c0, c1, mode) == c0 + RoundDiv(mode[3][1] * (c1 - c0), mode[3][2])

\* connect_by_projection, its last line: g3 is the state Way.insert_node
\* left
ConnectNewNode(g3, node, new_node) ==
  IF g3.err # "" THEN g3 ELSE connect_by_node(g3, node, new_node)

\* connect_by_projection from line 384 on: g1 is the state insert_new_node
\* left, its ret the new node
ProjectInto(g1, node, street, mode) ==
  IF g1.err # "" THEN g1
  ELSE ConnectNewNode(
         insert_node([g1 EXCEPT !.osm.nodes[g1.ret].partition_id =
                                  g1.osm.ways[street].partition_id],
                     street, mode[1], mode[2], g1.ret),
         node, g1.ret)

\* the body of connect_by_projection; ret is the id of the connecting
\* street, 0 for False
ConnectByProjection(g, node, street, mode) ==
  IF street = 0 \/ mode = <<>> THEN [g EXCEPT !.ret = 0]
  ELSE IF Len(mode) = 1
    \* connect_by_node(node, mode[0]): two arguments for three parameters
    THEN Raise(g, "TypeError")
  ELSE ProjectInto(
         insert_new_node(g,
           Projected(g.osm.nodes[mode[1]].lat, g.osm.nodes[mode[2]].lat, mode),
           Projected(g.osm.nodes[mode[1]].lon, g.osm.nodes[mode[2]].lon, mode)),
         node, street, mode)

\* connect_by_projection, recorded when it went past the tests of its
\* arguments; g1 is the state its body left
RecordProjection(g, g1, node, street, mode) ==
  IF street = 0 \/ mode = <<>> \/ Len(mode) = 1 THEN g1
  ELSE Called(g, g1, "connect_by_projection", <<node, street, mode>>)

connect_by_projection(g, node, street, mode) ==
  RecordProjection(g, ConnectByProjection(g, node, street, mode), node,
                   street, mode)

\* ------------------------------------------------- app/generalize.py
\* a test of line 57 that does not look at the POI state of the node
EndsSegmentNoPoi(nodes, way_nodes, i) ==
  \/ Len(nodes[way_nodes[i]].neighbours) # 2
  \/ i = Len(way_nodes)

\* the test of line 57: the node at position i ends a segment
EndsSegment(nodes, way_nodes, i) ==
  \/ Len(nodes[way_nodes[i]].neighbours) # 2
  \/ i = Len(way_nodes)
  \/ nodes[way_nodes[i]].poi > 0

\* the inner loop of generalize over the nodes of one way (lines 48-71);
\* i is the 1-based position of the node looked at
RECURSIVE GenLoop(_, _, _, _, _, _)
GenLoop(nodes, way_nodes, tolerance, i, segment, new_way) ==
  IF i > Len(way_nodes) THEN new_way
  ELSE
    LET node == way_nodes[i]
        seg == Append(segment, node)
    IN IF EndsSegment(nodes, way_nodes, i)
       THEN
         LET res == douglas_peucker(nodes, seg, tolerance)
             joined == IF new_way # <<>>
                         THEN SubSeq(new_way, 1, Len(new_way) - 1) \o res
                         ELSE res
         IN GenLoop(nodes, way_nodes, tolerance, i + 1, <<node>>, joined)
       ELSE GenLoop(nodes, way_nodes, tolerance, i + 1, seg, new_way)

\* the new_way generalize computes for one way
GeneralizedWay(nodes, way, tolerance) ==
  GenLoop(nodes, way.nodes, tolerance, 2, <<way.nodes[1]>>, <<>>)

\* a generalize whose last line assigns way.generalized = {tolerance:
\* new_way}: the sequences stored under other tolerances are dropped
generalize_forgetting(g, tolerance) ==
  [g EXCEPT
     !.osm.generalized = @ \cup {tolerance},
     !.osm.ways = [w \in DOMAIN @ |->
        IF w \in g.osm.street_tree
          THEN [@[w] EXCEPT !.generalized =
                  (tolerance :> GeneralizedWay(g.osm.nodes, g.osm.ways[w],
                                               tolerance))]
          ELSE @[w]]]

\* generalize(osm_object, tolerance), tolerance > 0; way.generalized is the
\* dict of the way, a function from tolerances to node lists
generalize(g, tolerance) ==
  [g EXCEPT
     !.osm.generalized = @ \cup {tolerance},
     !.osm.ways = [w \in DOMAIN @ |->
        IF w \in g.osm.street_tree /\ tolerance \notin DOMAIN @[w].generalized
          THEN [@[w] EXCEPT !.generalized =
                  (tolerance :> GeneralizedWay(g.osm.nodes, g.osm.ways[w],
                                               tolerance)) @@ @]
          ELSE @[w]]]

\* Node.delete_neighbours
delete_neighbours(node) ==
  [node EXCEPT !.neighbours = <<>>, !.partition_id = 0]

\* a body of the loop that leaves the two neighbours of the leaving node
\* unjoined: lines 436-437 are missing
UnlinkNodeUnjoined(g, node) ==
  LET nb == g.osm.nodes[node].neighbours
  IN IF Len(nb) # 2 THEN Raise(g, "AssertionError")
     ELSE
       LET n3 == [g.osm.nodes EXCEPT ![nb[1]].neighbours =
                    RemoveFirst(@, node)]
           n4 == [n3 EXCEPT ![nb[2]].neighbours = RemoveFirst(@, node)]
       IN [g EXCEPT !.osm.nodes = [n4 EXCEPT ![node] = delete_neighbours(@)]]

\* the body of the loop of Way.apply_generalization over the nodes that
\* leave the way (lines 433-442)
UnlinkNode(g, node) ==
  LET nb == g.osm.nodes[node].neighbours
  IN IF Len(nb) # 2 THEN Raise(g, "AssertionError")
     ELSE
       LET n1 == [g.osm.nodes EXCEPT ![nb[1]].neighbours = Append(@, nb[2])]
           n2 == [n1 EXCEPT ![nb[2]].neighbours = Append(@, nb[1])]
           n3 == [n2 EXCEPT ![nb[1]].neighbours = RemoveFirst(@, node)]
           n4 == [n3 EXCEPT ![nb[2]].neighbours = RemoveFirst(@, node)]
           n5 == [n4 EXCEPT ![node] = delete_neighbours(@)]
       IN IF IndexFrom(n2[nb[1]].neighbours, node, 1) = 0
            THEN Raise([g EXCEPT !.osm.nodes = n2], "ValueError")
          ELSE IF IndexFrom(n3[nb[2]].neighbours, node, 1) = 0
            THEN Raise([g EXCEPT !.osm.nodes = n3], "ValueError")
          ELSE [g EXCEPT !.osm.nodes = n5]

\* the loop of Way.apply_generalization over the nodes that leave the way
\* (line 432); a set is iterated, the nodes are taken by ascending id
RECURSIVE UnlinkNodes(_, _)
UnlinkNodes(g, removed) ==
  IF removed = {} \/ g.err # "" THEN g
  ELSE UnlinkNodes(UnlinkNode(g, MinOf(removed)), removed \ {MinOf(removed)})

\* the end of Way.apply_generalization without line 452: the memo stays
ReplaceNodesMemoKept(g1, way, nodes) ==
  IF g1.err # "" THEN g1
  ELSE [g1 EXCEPT !.osm.ways[way].nodes = nodes,
                  !.osm.ways[way].nodeIDs = nodes]

\* Way.apply_generalization from line 444 on: g1 is the state the loop
\* over the leaving nodes left
ReplaceNodes(g1, way, nodes) ==
  IF g1.err # "" THEN g1
  ELSE [g1 EXCEPT !.osm.ways[way].nodes = nodes,
                  !.osm.ways[way].nodeIDs = nodes,
                  !.osm.ways[way].generalized = <<>>]

\* Way.apply_generalization
apply_generalization(g, way, tolerance) ==
  LET w == g.osm.ways[way]
  IN IF tolerance \notin DOMAIN w.generalized THEN g
     ELSE ReplaceNodes(UnlinkNodes(g, SeqToSet(w.nodes)
                                        \ SeqToSet(w.generalized[tolerance])),
                       way, w.generalized[tolerance])

\* --------------------------------------------- Partition (app/partition)
\* Partition.__init__
NewPartition == [nodes |-> {}, streets |-> {}]

\* Partition.add_street on self.__partitions.get(p); get gives None for a
\* missing key and the call on None raises AttributeError
AddStreet(g, p, w) ==
  IF p \notin DOMAIN g.pf.partitions THEN Raise(g, "AttributeError")
  ELSE [g EXCEPT !.pf.partitions[p].streets = @ \cup {w}]

\* Partition.add_node on self.__partitions.get(p)
AddNode(g, p, n) ==
  IF p \notin DOMAIN g.pf.partitions THEN Raise(g, "AttributeError")
  ELSE [g EXCEPT !.pf.partitions[p].nodes = @ \cup {n}]

\* the neighbours of node n that are not filtered (partition.py 236-239)
UnfilteredNeighbours(g, n) ==
  SelectSeq(g.osm.nodes[n].neighbours,
            LAMBDA m : ~g.osm.nodes[m].filtered)

\* the while loop of breadth_first_search over the FIFO node queue
RECURSIVE BfsQueue(_, _)
BfsQueue(g, node_queue) ==
  IF node_queue = <<>> \/ g.err # "" THEN g
  ELSE
    LET node == Head(node_queue)
        rest == Tail(node_queue)
        nd == g.osm.nodes[node]
        cur == g.pf.partition_id
    IN IF nd.partition_id > 0 THEN BfsQueue(g, rest)
       ELSE IF nd.partition_id = -1 /\ nd.filtered THEN
         BfsQueue([g EXCEPT !.osm.nodes[node].partition_id = cur],
                  rest \o UnfilteredNeighbours(g, node))
       ELSE IF nd.filtered THEN BfsQueue(g, rest)
       ELSE
         BfsQueue(AddNode([g EXCEPT !.osm.nodes[node].partition_id = cur],
                          cur, node),
                  rest \o nd.neighbours)

\* the body of the for loop of breadth_first_search for one street
BfsStreet(g, street) ==
  LET w == g.osm.ways[street]
      first == g.osm.nodes[w.nodes[1]].partition_id
  IN IF w.filtered THEN g
     ELSE IF first > 0 THEN
       AddStreet([g EXCEPT !.osm.ways[street].partition_id = first],
                 first, street)
     ELSE
       LET new_id == g.pf.partition_id + 1
           g1 == [g EXCEPT
                    !.pf.partition_id = new_id,
                    !.osm.ways[street].partition_id = new_id,
                    !.pf.partitions =
                       IF new_id \in DOMAIN @ THEN @
                       ELSE (new_id :> NewPartition) @@ @]
           g2 == AddStreet(g1, new_id, street)
       IN BfsQueue(g2, w.nodes)

\* PartitionFinder.breadth_first_search
RECURSIVE breadth_first_search(_, _)
breadth_first_search(g, streets) ==
  IF streets = <<>> \/ g.err # "" THEN g
  ELSE breadth_first_search(BfsStreet(g, Head(streets)), Tail(streets))

\* the order in which a dict of partitions is iterated: CPython orders small
\* integer keys by value
DictOrder(S) ==
  [i \in 1..Cardinality(S) |->
     CHOOSE x \in S : Cardinality({y \in S : y < x}) = i - 1]

\* the loop of find_largest_partition; acc = <<max_partition, max_size, err>>
RECURSIVE LargestLoop(_, _, _)
LargestLoop(parts, ids, acc) ==
  IF ids = <<>> \/ acc[3] # "" THEN acc
  ELSE
    LET id == Head(ids)
        size == Cardinality(parts[id].nodes)
    IN IF size > acc[2] THEN LargestLoop(parts, Tail(ids), <<id, size, "">>)
       ELSE IF size = acc[2] THEN
         IF acc[1] \notin DOMAIN parts
           THEN <<acc[1], acc[2], "AttributeError">>
         ELSE IF Cardinality(parts[id].streets)
                   > Cardinality(parts[acc[1]].streets)
           THEN LargestLoop(parts, Tail(ids), <<id, size, "">>)
         ELSE LargestLoop(parts, Tail(ids), acc)
       ELSE LargestLoop(parts, Tail(ids), acc)

\* PartitionFinder.find_largest_partition: <<max_partition, max_size, err>>
find_largest_partition(parts) ==
  LargestLoop(parts, DictOrder(DOMAIN parts), <<0, 0, "">>)

\* find_partitions after the search (lines 42-43): g1 is the state
\* breadth_first_search left
SetLargest(g1) ==
  LET res == find_largest_partition(g1.pf.partitions)
  IN IF g1.err # "" THEN g1
     ELSE IF res[3] # "" THEN Raise(g1, res[3])
     ELSE [g1 EXCEPT !.pf.largest_partition = res[1],
                     !.pf.recalculate = FALSE]

\* PartitionFinder.find_partitions; streets is self.__streets, which
\* __init__ or reset_partitions assigned just before every call
find_partitions(g, streets) ==
  SetLargest(breadth_first_search([g EXCEPT !.pf.partitions = <<>>,
                                            !.pf.partition_id = 0,
                                            !.pf.largest_partition = 0],
                                  streets))

\* the loops of reset_partitions over the streets and their nodes
ResetNodes(nodes, ways, streets) ==
  LET touched == UNION {SeqToSet(ways[streets[i]].nodes) :
                          i \in 1..Len(streets)}
  IN [n \in DOMAIN nodes |->
        IF n \in touched
          THEN [nodes[n] EXCEPT !.partition_id = 0, !.filtered = FALSE]
          ELSE nodes[n]]

ResetWays(ways, streets) ==
  [w \in DOMAIN ways |->
     IF w \in SeqToSet(streets)
       THEN [ways[w] EXCEPT !.partition_id = 0, !.filtered = FALSE]
       ELSE ways[w]]

\* PartitionFinder.reset_partitions; order is the order in which the street
\* index returns its entries
reset_partitions(g, order) ==
  [g EXCEPT !.pf.filtered_streets = {},
            !.osm.nodes = ResetNodes(@, g.osm.ways, order),
            !.osm.ways = ResetWays(@, order)]

\* the orders in which street_tree.intersection may return the streets
TreeOrders(o) == Perms(o.street_tree)

\* a set of ids as a list, greatest id first
Descending(S) ==
  [i \in 1..Cardinality(S) |->
     CHOOSE x \in S : Cardinality({y \in S : y > x}) = i - 1]

\* the order of the index that goes with an order of the Node objects: by
\* ascending or by descending id
IndexOrder(o, descending) ==
  IF descending THEN Descending(o.street_tree) ELSE DictOrder(o.street_tree)

\* the marking loop of filter_streets (partition.py 94-104)
RECURSIVE MarkFiltered(_, _, _)
MarkFiltered(g, streets, street_filter) ==
  IF streets = <<>> THEN g
  ELSE
    LET street == Head(streets)
        w == g.osm.ways[street]
    IN IF w.highway \in street_filter THEN
         MarkFiltered(
           [g EXCEPT
              !.osm.ways[street].partition_id = -1,
              !.osm.ways[street].filtered = TRUE,
              !.osm.nodes = [n \in DOMAIN @ |->
                               IF n \in SeqToSet(w.nodes)
                                 THEN [@[n] EXCEPT !.partition_id = -1,
                                                   !.filtered = TRUE]
                                 ELSE @[n]],
              !.pf.filtered_streets = @ \cup {street}],
           Tail(streets), street_filter)
       ELSE MarkFiltered(g, Tail(streets), street_filter)

\* PartitionFinder.filter_streets; the value it returns is
\* (filtered_streets # <<>>) of the result
filter_streets(g, street_filter, order) ==
  IF g.err # "" THEN g
  ELSE find_partitions(MarkFiltered(reset_partitions(g, order), order,
                               street_filter), order)

\* a delete_way that takes the way out of the street index only: line 883
\* is missing
delete_way_indexed(g, way) == [g EXCEPT !.osm.street_tree = @ \ {way}]

\* OSM_objects.delete_way: the way leaves the street index and the way
\* store; AVLTree.remove raises KeyError for a key it does not hold
delete_way(g, way) ==
  LET g1 == [g EXCEPT !.osm.street_tree = @ \ {way}]
  IN IF way \notin g.osm.way_avl THEN Raise(g1, "KeyError")
     ELSE [g1 EXCEPT !.osm.way_avl = @ \ {way}]

\* delete_way for each way of a collection; the calls commute, so the
\* ways are taken in the order of their ids
RECURSIVE DeleteWays(_, _)
DeleteWays(g, ways) ==
  IF ways = {} \/ g.err # "" THEN g
  ELSE DeleteWays(delete_way(g, MinOf(ways)), ways \ {MinOf(ways)})

\* PartitionFinder.remove_filtered_streets
remove_filtered_streets(g) == DeleteWays(g, g.pf.filtered_streets)

\* the PartitionFinder before OSM_objects.get_partitions creates it
NoFinder ==
  [exists |-> FALSE, partitions |-> <<>>, partition_id |-> 0,
   largest_partition |-> 0, recalculate |-> FALSE,
   filtered_streets |-> {}]

\* OSM_objects.get_partitions: PartitionFinder.__init__ on first use; when
\* the constructor raises no finder is stored
StoreFinder(g1) == IF g1.err # "" THEN [g1 EXCEPT !.pf = NoFinder] ELSE g1

get_partitions(g, order) ==
  IF g.pf.exists \/ g.err # "" THEN g
  ELSE StoreFinder(find_partitions(
                     [g EXCEPT !.pf = [NoFinder EXCEPT !.exists = TRUE]],
                     order))

\* OSM_objects.recalculate_partitions
recalculate_partitions(g, order) ==
  IF ~g.pf.exists THEN get_partitions(g, order)
  ELSE find_partitions(reset_partitions(g, order), order)

\* --------------------------------- connecting partitions (partition.py)
\* create_node_box: [west_lon, south_lat, east_lon, north_lat]
create_node_box(node, distance) ==
  <<node.lon - distance, node.lat - distance,
    node.lon + distance, node.lat + distance>>

\* intersects(rectangle1, rectangle2)
intersects(r1, r2) ==
  r1[1] <= r2[3] /\ r1[3] >= r2[1] /\ r1[2] <= r2[4] /\ r1[4] >= r2[2]

\* street_tree.intersection(box): the streets of the index whose box meets
\* the box, those the handler found in the index in the order it found them
\* in, then the streets made since (a new id is below all ids before it)
TreeQuery(g, box, order) ==
  LET hit(w) == w \in g.osm.street_tree /\ intersects(g.osm.ways[w].box, box)
  IN SelectSeq(order, hit)
       \o SelectSeq(Descending(g.osm.street_tree \ SeqToSet(order)), hit)

\* OSM_objects.get_adjacent_streets
get_adjacent_streets(g, node, threshold, order) ==
  TreeQuery(g, create_node_box(g.osm.nodes[node], threshold), order)

\* PartitionFinder.filter_streets_by_partition
filter_streets_by_partition(g, streets, partition_id) ==
  SelectSeq(streets, LAMBDA w : g.osm.ways[w].partition_id # partition_id)

\* what a call leaves that returns True once the call it ends with has
\* returned; ret is 1 for True
ReturnTrue(g1) == IF g1.err # "" THEN g1 ELSE [g1 EXCEPT !.ret = 1]

\* PartitionFinder.remove_partition
DropPartition(g1, partition_id) ==
  IF g1.err # "" THEN g1
  ELSE [g1 EXCEPT !.pf.partitions =
          [p \in DOMAIN @ \ {partition_id} |-> @[p]]]

remove_partition(g, partition_id) ==
  DropPartition(DeleteWays(g, g.pf.partitions[partition_id].streets),
                partition_id)

\* the nearest street of another partition within the search distance of a
\* node (lines 361-366): <<street, distance, mode>>
NearestOther(g, node, partition_id, search_threshold, order) ==
  get_nearest_street(g, node,
    filter_streets_by_partition(g,
      get_adjacent_streets(g, node, search_threshold, order),
      partition_id),
    <<0, Inf, <<>>>>)

\* the tuples (distance, node, street) of connect_partition (360-370), one
\* for each node of the partition that has a street of another partition
\* within the search distance
Candidates(g, partition_id, search_threshold, order) ==
  {<<c[2][2], c[1], c[2][1]>> :
     c \in {d \in {<<node, NearestOther(g, node, partition_id,
                                        search_threshold, order)>> :
                     node \in g.pf.partitions[partition_id].nodes} :
              d[2][1] # 0}}

\* sorted(nodes_and_distances): by distance; two tuples of the same distance
\* are ordered by their Node objects, which have no order of their own: by
\* ascending or by descending id
RECURSIVE SortedCandidates(_, _)
SortedCandidates(cands, descending) ==
  IF cands = {} THEN <<>>
  ELSE
    LET nearest == {c \in cands : \A d \in cands : ~DLess(d[1], c[1])}
        first == CHOOSE c \in nearest : \A d \in nearest :
                   IF descending THEN d[2] <= c[2] ELSE d[2] >= c[2]
    IN <<first>> \o SortedCandidates(cands \ {first}, descending)

\* the locals of the while loop of connect_partition before its first pass
WalkStart(g) ==
  [g |-> g, connection_count |-> 0, connected_nodes |-> {},
   partition_connected |-> FALSE, new_partition_id |-> 0]

\* the end of a pass of the walk without line 418: partition_connected
\* stays as it was
ConnectedUnnoticed(st, g1, partition_id, node, by_node, target) ==
  IF g1.err # "" THEN [st EXCEPT !.g = g1]
  ELSE [g |-> [g1 EXCEPT !.pf.partitions[partition_id].streets =
                           @ \cup {g1.ret}],
        connection_count |-> st.connection_count + 1,
        connected_nodes |-> st.connected_nodes \cup {node},
        partition_connected |-> st.partition_connected,
        new_partition_id |-> IF by_node
                               THEN g1.osm.nodes[target].partition_id
                               ELSE g1.osm.ways[target].partition_id]

\* lines 397-418 after a connect call returned g1: new_partition_id is read
\* from the node (by_node) or from the street the node was connected with
Connected(st, g1, partition_id, node, by_node, target) ==
  IF g1.err # "" THEN [st EXCEPT !.g = g1]
  ELSE [g |-> [g1 EXCEPT !.pf.partitions[partition_id].streets =
                           @ \cup {g1.ret}],
        connection_count |-> st.connection_count + 1,
        connected_nodes |-> st.connected_nodes \cup {node},
        partition_connected |-> TRUE,
        new_partition_id |-> IF by_node
                               THEN g1.osm.nodes[target].partition_id
                               ELSE g1.osm.ways[target].partition_id]

\* lines 401-412 without the test of line 406: the street is always reached
\* over the projection
ConnectFarProjected(st, partition_id, cand, near, nearest, projection_threshold) ==
  Connected(st, connect_by_projection(st.g, cand[2], near[1], near[3]),
            partition_id, cand[2], FALSE, near[1])

\* lines 401-412: the street is reached over its nearest node, nearest =
\* <<nearest_street_node, node_distance>>, or over the projection
ConnectFar(st, partition_id, cand, near, nearest, projection_threshold) ==
  IF DDiffLessInt(nearest[2], cand[1], projection_threshold)
    THEN Connected(st, connect_by_node(st.g, cand[2], nearest[1]),
                   partition_id, cand[2], TRUE, nearest[1])
    ELSE Connected(st, connect_by_projection(st.g, cand[2], near[1],
                                             near[3]),
                   partition_id, cand[2], FALSE, near[1])

\* lines 393-412: near = <<nearest_street, dist, min_mode>>
ConnectNear(st, partition_id, cand, near, projection_threshold) ==
  IF near[3] = <<>> THEN [st EXCEPT !.g = Raise(st.g, "TypeError")]
  ELSE IF Len(near[3]) = 1
    THEN Connected(st, connect_by_node(st.g, cand[2], near[3][1]),
                   partition_id, cand[2], TRUE, near[3][1])
  ELSE ConnectFar(st, partition_id, cand, near,
                  get_nearest_street_node(st.g, cand[2], <<near[1]>>,
                                          <<0, Inf>>),
                  projection_threshold)

\* the body of the walk of connect_partition for one tuple that is not
\* ignored (393-418)
ConnectCandidate(st, partition_id, cand, projection_threshold) ==
  ConnectNear(st, partition_id, cand,
              get_nearest_street(st.g, cand[2], <<cand[3]>>,
                                 <<0, Inf, <<>>>>),
              projection_threshold)

\* the while loop without the test of lines 388-391: no tuple is ignored
RECURSIVE ConnectWalkAll(_, _, _, _, _)
ConnectWalkAll(st, partition_id, sorted, index, th) ==
  IF \/ st.g.err # ""
     \/ st.connection_count >= th.connection
     \/ index > Len(sorted)
  THEN st
  ELSE ConnectWalkAll(ConnectCandidate(st, partition_id, sorted[index],
                                       th.projection),
                      partition_id, sorted, index + 1, th)

\* the while loop of connect_partition (378-419); st holds the locals g,
\* connection_count, connected_nodes, partition_connected, new_partition_id
RECURSIVE ConnectWalk(_, _, _, _, _)
ConnectWalk(st, partition_id, sorted, index, th) ==
  IF \/ st.g.err # ""
     \/ st.connection_count >= th.connection
     \/ index > Len(sorted)
  THEN st
  ELSE IF \E c \in st.connected_nodes :
            DLessInt(distance_points(st.g.osm.nodes[sorted[index][2]],
                                     st.g.osm.nodes[c]),
                     th.distance)
    THEN ConnectWalk(st, partition_id, sorted, index + 1, th)
  ELSE ConnectWalk(ConnectCandidate(st, partition_id, sorted[index],
                                    th.projection),
                   partition_id, sorted, index + 1, th)

\* a merge whose append_partition gives the members of the source the
\* label -1
MergePartitionFiltered(g, partition_id, new_partition_id) ==
  IF new_partition_id \notin DOMAIN g.pf.partitions
    THEN Raise(g, "AttributeError")
  ELSE
    [g EXCEPT
       !.osm.nodes = [n \in DOMAIN @ |->
          IF n \in g.pf.partitions[partition_id].nodes
            THEN [@[n] EXCEPT !.partition_id = -1]
            ELSE @[n]],
       !.pf.partitions = [p \in DOMAIN @ \ {partition_id} |-> @[p]]]

\* Partition.append_partition followed by del self.__partitions[partition_id]
\* (422-431)
MergePartition(g, partition_id, new_partition_id) ==
  LET other == g.pf.partitions[partition_id]
  IN IF new_partition_id \notin DOMAIN g.pf.partitions
       THEN Raise(g, "AttributeError")
     ELSE
       [g EXCEPT
          !.osm.nodes = [n \in DOMAIN @ |->
             IF n \in other.nodes
               THEN [@[n] EXCEPT !.partition_id = new_partition_id]
               ELSE @[n]],
          !.osm.ways = [w \in DOMAIN @ |->
             IF w \in other.streets
               THEN [@[w] EXCEPT !.partition_id = new_partition_id]
               ELSE @[w]],
          !.pf.partitions =
             [p \in DOMAIN @ \ {partition_id} |->
                IF p = new_partition_id
                  THEN [nodes |-> @[p].nodes \cup other.nodes,
                        streets |-> @[p].streets \cup other.streets]
                  ELSE @[p]]]

\* connect_partition from line 421 on: st holds the locals the while loop
\* left
MergeConnected(st, partition_id) ==
  IF st.g.err # "" THEN st.g
  ELSE IF st.partition_connected
    THEN ReturnTrue(MergePartition(st.g, partition_id, st.new_partition_id))
  ELSE [st.g EXCEPT !.ret = 0]

\* PartitionFinder.connect_partition; ret is 1 for True and 0 for False
connect_partition(g, partition_id, th, order, descending) ==
  IF Cardinality(g.pf.partitions[partition_id].nodes) < th.size
    THEN ReturnTrue(remove_partition(g, partition_id))
  ELSE MergeConnected(
         ConnectWalk(WalkStart(g), partition_id,
                     SortedCandidates(
                       Candidates(g, partition_id, th.search, order),
                       descending),
                     1, th),
         partition_id)

\* a choice that takes the first partition of the table whatever it is:
\* lines 143-144 are missing
NextPartitionFirst(g) == DictOrder(DOMAIN g.pf.partitions)[1]

\* the partition the while loop of connect_partitions takes (141-144)
NextPartition(g) ==
  LET partition_ids == DictOrder(DOMAIN g.pf.partitions)
  IN IF partition_ids[1] = g.pf.largest_partition
       THEN partition_ids[2] ELSE partition_ids[1]

\* the while loop of connect_partitions (135-147); Counted is the end of a
\* pass, g1 the state connect_partition left
RECURSIVE ConnectLoop(_, _, _, _, _)
RECURSIVE Counted(_, _, _, _, _)
Counted(g1, parts, th, order, descending) ==
  IF g1.err # "" THEN g1
  ELSE ConnectLoop(g1, IF g1.ret = 0 THEN parts + 1 ELSE parts, th, order,
                   descending)

ConnectLoop(g, parts, th, order, descending) ==
  IF g.err # "" \/ Cardinality(DOMAIN g.pf.partitions) <= parts
    THEN [g EXCEPT !.ret = parts]
  ELSE Counted(connect_partition(g, NextPartition(g), th, order, descending),
               parts, th, order, descending)

\* no call of connect_partitions in progress
CPIdle ==
  [running |-> FALSE, th |-> <<>>, order |-> <<>>, descending |-> FALSE,
   parts |-> 0, largest |-> 0, chosen |-> 0, tried |-> {}]

\* connect_partitions before its loop (lines 122-128): the recalculation
CPRecalculated(g, order) ==
  IF g.err # "" THEN g
  ELSE IF g.pf.recalculate
    THEN find_partitions(reset_partitions(g, order), order)
  ELSE g

\* PartitionFinder.connect_partitions; ret is the value it returns
connect_partitions(g, th, order, descending) ==
  IF g.err # "" THEN g
  ELSE ConnectLoop(IF g.pf.recalculate
                     THEN find_partitions(reset_partitions(g, order), order)
                     ELSE g,
                   1, th, order, descending)

\* -------------------------------------------------------- app/poi.py
POI_SELECTED == 1

POI_CONNECTED == 2

POI_NOT_CONNECTED == 4

\* Poi.get_poi for the selection amenity=cafe: the set it returns, and the
\* store with the nodes marked
SelectedNodes(o) == {n \in o.node_avl : o.nodes[n].cafe}

get_poi(g) ==
  [g EXCEPT !.osm.nodes = [n \in DOMAIN @ |->
     IF n \in SelectedNodes(g.osm) /\ @[n].poi # POI_CONNECTED
       THEN [@[n] EXCEPT !.poi = POI_SELECTED]
       ELSE @[n]]]

\* connect_with_nearest_street from line 256 on: near = <<nearest_street,
\* min_dist, min_mode>>
ConnectNearest(g, poi_node, near, projection_threshold) ==
  LET by_node == get_nearest_street_node(g, poi_node, <<near[1]>>,
                                         <<0, Inf>>)
  IN IF near[3] = <<>> THEN Raise(g, "TypeError")
     ELSE IF \/ Len(near[3]) = 1
             \/ DDiffLessInt(by_node[2], near[2], projection_threshold)
       THEN connect_by_node(g, poi_node,
                            IF Len(near[3]) = 1 THEN near[3][1]
                                                ELSE by_node[1])
     ELSE connect_by_projection(g, poi_node, near[1], near[3])

\* Poi.connect_with_nearest_street; ret is 0 for False
connect_with_nearest_street(g, poi_node, streets, projection_threshold) ==
  IF streets = <<>> THEN [g EXCEPT !.ret = 0]
  ELSE ConnectNearest(g, poi_node,
                      get_nearest_street(g, poi_node, streets,
                                         <<0, Inf, <<>>>>),
                      projection_threshold)

\* connect_poi, lines 303-304: the POI lies on the nearest street node
ConnectSame(g, poi_node, nearest_node) ==
  IF have_same_coords(g.osm.nodes[poi_node], g.osm.nodes[nearest_node])
    THEN connect_by_node(g, poi_node, nearest_node)
    ELSE [g EXCEPT !.ret = 0]

\* connect_poi, lines 308-313, in a file without buildings and without
\* addr:street tags: connect_by_building and connect_by_address connect
\* nothing
ConnectOther(g1, poi_node, streets, projection_threshold) ==
  IF g1.err = "" /\ g1.ret = 0
    THEN connect_with_nearest_street(g1, poi_node, streets,
                                     projection_threshold)
    ELSE g1

\* connect_poi, lines 316-320
MarkConnected(g2, poi_node) ==
  IF g2.err # "" THEN g2
  ELSE [g2 EXCEPT !.osm.nodes[poi_node].poi =
          IF g2.ret # 0 THEN POI_CONNECTED ELSE POI_NOT_CONNECTED]

\* a connect_poi that leaves a node without streets around it as it is:
\* lines 318-320 are not reached
ConnectPoiStreetsLeft(g, poi_node, streets, projection_threshold) ==
  IF streets = <<>> THEN g
  ELSE MarkConnected(
         ConnectOther(
           ConnectSame(g, poi_node,
                       get_nearest_street_node(g, poi_node, streets,
                                               <<0, Inf>>)[1]),
           poi_node, streets, projection_threshold),
         poi_node)

\* connect_poi for one node that is not a street node, once the streets
\* around it are known
ConnectPoiStreets(g, poi_node, streets, projection_threshold) ==
  IF streets = <<>>
    THEN [g EXCEPT !.osm.nodes[poi_node].poi = POI_NOT_CONNECTED]
  ELSE MarkConnected(
         ConnectOther(
           ConnectSame(g, poi_node,
                       get_nearest_street_node(g, poi_node, streets,
                                               <<0, Inf>>)[1]),
           poi_node, streets, projection_threshold),
         poi_node)

\* the body of the loop of Poi.connect_poi for one node that is not a
\* street node
ConnectPoiNode(g, poi_node, th, order) ==
  ConnectPoiStreets(g, poi_node,
                    get_adjacent_streets(g, poi_node, th.search, order),
                    th.projection)

\* Poi.connect_poi; the set of POI nodes is gone through by ascending or by
\* descending id
RECURSIVE connect_poi(_, _, _, _, _)
connect_poi(g, poi_nodes, th, order, descending) ==
  IF poi_nodes = {} \/ g.err # "" THEN g
  ELSE
    LET poi_node == IF descending THEN MaxOf(poi_nodes) ELSE MinOf(poi_nodes)
        g1 == IF g.osm.nodes[poi_node].neighbours # <<>>
                THEN [g EXCEPT !.osm.nodes[poi_node].poi = POI_CONNECTED]
                ELSE ConnectPoiNode(g, poi_node, th, order)
    IN connect_poi(g1, poi_nodes \ {poi_node}, th, order, descending)

\* Poi.get_street_by_name(name, streets); names gives the name tag of the
\* ways that carry one, "" stands for no name and <<>> for None
get_street_by_name(names, name, streets) ==
  IF name = "" THEN <<>>
  ELSE SelectSeq(streets, LAMBDA w : w \in DOMAIN names /\ names[w] = name)

\* connect_by_address from line 206 on: named_streets is not empty,
\* address_distance and nearest_distance are the distances to the nearest
\* of the named streets and to the nearest of all streets
ConnectNamed(g, poi_node, named_streets, streets, address_distance, nearest_distance, projection_threshold, address_threshold) ==
  IF DDiffLessInt(address_distance, nearest_distance, address_threshold)
    THEN connect_with_nearest_street(g, poi_node, named_streets,
                                     projection_threshold)
    ELSE connect_with_nearest_street(g, poi_node, streets,
                                     projection_threshold)

\* Poi.connect_by_address
connect_by_address(g, names, poi_node, address, streets, projection_threshold, address_threshold) ==
  IF get_street_by_name(names, address, streets) = <<>>
    THEN connect_with_nearest_street(g, poi_node, streets,
                                     projection_threshold)
  ELSE ConnectNamed(g, poi_node, get_street_by_name(names, address, streets),
                    streets,
                    get_nearest_street(g, poi_node,
                                       get_street_by_name(names, address,
                                                          streets),
                                       <<0, Inf, <<>>>>)[2],
                    get_nearest_street(g, poi_node, streets,
                                       <<0, Inf, <<>>>>)[2],
                    projection_threshold, address_threshold)

\* connect_poi, lines 308-311, in a file without buildings for a node with
\* the tag addr:street: connect_by_building connects nothing, then
\* connect_by_address is tried; g1 is the state lines 303-304 left
ConnectAddress(g1, names, poi_node, address, streets, th) ==
  IF g1.err = "" /\ g1.ret = 0 /\ address # ""
    THEN connect_by_address(g1, names, poi_node, address, streets,
                            th.projection, th.address)
    ELSE g1

\* connect_poi for one node with the tag addr:street that is not a street
\* node, once the streets around it are known
ConnectAddressedStreets(g, names, poi_node, address, streets, th) ==
  IF streets = <<>>
    THEN [g EXCEPT !.osm.nodes[poi_node].poi = POI_NOT_CONNECTED]
  ELSE MarkConnected(
         ConnectOther(
           ConnectAddress(
             ConnectSame(g, poi_node,
                         get_nearest_street_node(g, poi_node, streets,
                                                 <<0, Inf>>)[1]),
             names, poi_node, address, streets, th),
           poi_node, streets, th.projection),
         poi_node)

\* the body of the loop of Poi.connect_poi for one node with the tag
\* addr:street
ConnectAddressedNode(g, names, poi_node, address, th, order) ==
  IF g.osm.nodes[poi_node].neighbours # <<>>
    THEN [g EXCEPT !.osm.nodes[poi_node].poi = POI_CONNECTED]
  ELSE ConnectAddressedStreets(g, names, poi_node, address,
                               get_adjacent_streets(g, poi_node, th.search,
                                                    order),
                               th)

\* ------------------------------------------------ MainWindow (the menu)
\* the Edit menu after a file is opened (main_window.py 278-287)
MenuOpened ==
  [select_poi |-> TRUE, connect_poi |-> FALSE, connect_partitions |-> TRUE,
   filter_streets |-> TRUE, apply_filter |-> FALSE, remove_filter |-> FALSE,
   remove_nodes |-> TRUE, generalize |-> TRUE,
   apply_generalization |-> FALSE]

\* the street filters the filter dialogue may return (never empty)
StreetFilters == SUBSET FilterTypes \ {{}}

\* what a handler leaves in last: its name, the exception that ended it,
\* whether it ended with a completed find_partitions, what its last call
\* returned and the record of its connect calls
Ran(op, g, found) ==
  [op |-> op, err |-> g.err, found |-> found /\ g.err = "",
   ret |-> g.ret, calls |-> g.calls]

\* what every handler leaves: the store, the finder and the record
Leave(op, g, found) ==
  /\ osm' = g.osm
  /\ pf' = g.pf
  /\ last' = Ran(op, g, found)

\* __on_filter_streets after filter_streets returned (lines 419-432)
Filtered(g) ==
  /\ Leave("filter_streets", g, TRUE)
  /\ menu' = IF g.err = "" /\ g.pf.filtered_streets # {}
               THEN [menu EXCEPT
                       !.filter_streets = FALSE,
                       !.apply_filter = TRUE,
                       !.remove_filter = TRUE,
                       !.select_poi = FALSE,
                       !.connect_poi = FALSE,
                       !.connect_partitions = FALSE,
                       !.generalize = FALSE,
                       !.apply_generalization = FALSE,
                       !.remove_nodes = FALSE]
               ELSE menu

\* MainWindow.__on_filter_streets
OnFilterStreets(street_filter, order) ==
  /\ menu.filter_streets
  /\ Filtered(filter_streets(get_partitions(Ctx(osm, pf), order),
                             street_filter, order))
  /\ UNCHANGED <<dp, cp, poi>>

\* the menu after the filter is applied or removed (main_window.py 441-450,
\* 458-467)
MenuUnfiltered ==
  [menu EXCEPT !.filter_streets = TRUE, !.apply_filter = FALSE,
               !.remove_filter = FALSE, !.select_poi = TRUE,
               !.connect_poi = FALSE, !.connect_partitions = TRUE,
               !.generalize = TRUE, !.apply_generalization = FALSE,
               !.remove_nodes = TRUE]

\* the end of __on_apply_filter and of __on_remove_filter
Unfiltered(op, g, found) ==
  /\ Leave(op, g, found)
  /\ menu' = IF g.err = "" THEN MenuUnfiltered ELSE menu

\* MainWindow.__on_apply_filter
OnApplyFilter ==
  /\ menu.apply_filter
  /\ Unfiltered("apply_filter", remove_filtered_streets(Ctx(osm, pf)), FALSE)
  /\ UNCHANGED <<dp, cp, poi>>

\* MainWindow.__on_remove_filter
OnRemoveFilter(order) ==
  /\ menu.remove_filter
  /\ Unfiltered("remove_filter",
                find_partitions(reset_partitions(Ctx(osm, pf), order), order),
                TRUE)
  /\ UNCHANGED <<dp, cp, poi>>

\* osm_map_rendering.py 197-199: g0 is the state get_partitions left
Recalculated(g0, order) ==
  IF g0.err = "" /\ g0.pf.recalculate
    THEN recalculate_partitions(g0, order) ELSE g0

\* drawing the map with "show partitions" on (osm_map_rendering.py 196-199)
OnShowPartitions(order) ==
  /\ Leave("show_partitions",
           Recalculated(get_partitions(Ctx(osm, pf), order), order),
           ~pf.exists \/ pf.recalculate)
  /\ UNCHANGED <<menu, dp, cp, poi>>

\* the thresholds the partition dialogue may return
PartitionThresholds ==
  {th \in [search : {SearchThreshold}, projection : {0, MaxTolerance},
            size : {0, SizeThreshold}, connection : 1..MaxConnections,
            distance : {0, SearchThreshold}] :
     th.connection = 1 => th.distance = 0}

\* MainWindow.__on_connect_partitions
OnConnectPartitions(th, descending) ==
  /\ menu.connect_partitions
  /\ Leave("connect_partitions",
           connect_partitions(
             get_partitions(Ctx(osm, pf), IndexOrder(osm, descending)),
             th, IndexOrder(osm, descending), descending),
           FALSE)
  /\ UNCHANGED <<menu, dp, cp, poi>>

\* MainWindow.__on_generalize; the dialogue returns a tolerance > 0
OnGeneralize(tolerance) ==
  /\ menu.generalize
  /\ Leave("generalize", generalize(Ctx(osm, pf), tolerance), FALSE)
  /\ menu' = [menu EXCEPT !.apply_generalization = TRUE,
                          !.select_poi = FALSE, !.connect_poi = FALSE,
                          !.connect_partitions = FALSE,
                          !.filter_streets = FALSE, !.apply_filter = FALSE,
                          !.remove_filter = FALSE, !.remove_nodes = FALSE]
  /\ UNCHANGED <<dp, cp, poi>>

\* the loop of __on_apply_generalization over the streets of the index
RECURSIVE ApplyToWays(_, _, _)
ApplyToWays(g, ways, tolerance) ==
  IF ways = <<>> \/ g.err # "" THEN g
  ELSE ApplyToWays(apply_generalization(g, Head(ways), tolerance),
                   Tail(ways), tolerance)

\* get_partitions().recalculate = True
SetRecalculate(g) ==
  IF g.err # "" THEN g ELSE [g EXCEPT !.pf.recalculate = TRUE]

\* __on_apply_generalization from line 516 on: g2 is the state
\* get_partitions left
ApplyMarked(g2) ==
  /\ Leave("apply_generalization", SetRecalculate(g2), FALSE)
  /\ menu' = IF g2.err # ""
               THEN [menu EXCEPT !.apply_generalization = FALSE]
               ELSE [menu EXCEPT !.apply_generalization = FALSE,
                                 !.select_poi = TRUE,
                                 !.connect_poi = FALSE,
                                 !.connect_partitions = TRUE,
                                 !.filter_streets = TRUE,
                                 !.apply_filter = FALSE,
                                 !.remove_filter = FALSE,
                                 !.remove_nodes = TRUE]

\* __on_apply_generalization from line 512 on: g1 is the state the loop
\* over the ways left
Applied(g1, order) ==
  IF g1.err # ""
    THEN Leave("apply_generalization", g1, FALSE) /\ menu' = menu
    ELSE ApplyMarked(get_partitions([g1 EXCEPT !.osm.generalized = {}],
                                    order))

\* MainWindow.__on_apply_generalization with the radio item of a tolerance
\* active (with the item "None" active int() raises before anything changes)
OnApplyGeneralization(tolerance, descending) ==
  /\ menu.apply_generalization
  /\ Applied(ApplyToWays(Ctx(osm, pf), IndexOrder(osm, descending),
                         tolerance),
             IndexOrder(osm, descending))
  /\ UNCHANGED <<dp, cp, poi>>

\* MainWindow.__on_select_poi with the selection amenity=cafe
OnSelectPoi ==
  /\ menu.select_poi
  /\ Leave("select_poi", get_poi(Ctx(osm, pf)), FALSE)
  /\ poi' = SelectedNodes(osm)
  /\ menu' = IF SelectedNodes(osm) # {}
               THEN [menu EXCEPT !.connect_poi = TRUE,
                                 !.connect_partitions = FALSE,
                                 !.filter_streets = FALSE,
                                 !.apply_filter = FALSE,
                                 !.remove_filter = FALSE,
                                 !.generalize = FALSE,
                                 !.apply_generalization = FALSE,
                                 !.remove_nodes = FALSE]
               ELSE menu
  /\ UNCHANGED <<dp, cp>>

\* the thresholds the POI dialogue may return
PoiThresholds ==
  [search : {SearchThreshold}, projection : {0, MaxTolerance}, address : {0}]

\* __on_connect_poi from line 394 on
PoiConnected(g) ==
  /\ Leave("connect_poi", g, FALSE)
  /\ menu' = IF g.err # "" THEN menu
             ELSE [menu EXCEPT !.connect_partitions = TRUE,
                               !.filter_streets = TRUE,
                               !.apply_filter = FALSE,
                               !.remove_filter = FALSE,
                               !.generalize = TRUE,
                               !.apply_generalization = FALSE,
                               !.remove_nodes = TRUE]

\* MainWindow.__on_connect_poi
OnConnectPoi(th, descending) ==
  /\ menu.connect_poi
  /\ PoiConnected(
       SetRecalculate(
         get_partitions(
           connect_poi(Ctx(osm, pf), poi, th, IndexOrder(osm, descending),
                       descending),
           IndexOrder(osm, descending))))
  /\ UNCHANGED <<dp, cp, poi>>

\* ------------------------------------------------------- specification
\* the state after MainWindow opened a file
Opened(o) ==
  /\ osm = o
  /\ pf = NoFinder
  /\ menu = MenuOpened
  /\ last = Ran("open", Ctx(osm, pf), FALSE)
  /\ dp = DPIdle
  /\ cp = CPIdle
  /\ poi = {}

Init == \E file \in Files : Opened(Parse(file))

Next ==
  \/ \E f \in StreetFilters, order \in TreeOrders(osm) :
       OnFilterStreets(f, order)
  \/ OnApplyFilter
  \/ \E order \in TreeOrders(osm) : OnRemoveFilter(order)
  \/ \E order \in TreeOrders(osm) : OnShowPartitions(order)

Spec == Init /\ [][Next]_vars

\* --------------------------------- specification: editing the network
\* the tolerances the generalization dialogue returns
GenTolerances == {1, MaxTolerance}

InitEdit == \E file \in FilesOf(MaxEditWays) : Opened(Parse(file))

NextEdit ==
  \/ \E th \in PartitionThresholds, descending \in BOOLEAN :
       find_new_key(osm) >= -MaxNewKeys /\ OnConnectPartitions(th, descending)
  \/ \E tolerance \in GenTolerances : OnGeneralize(tolerance)
  \/ \E tolerance \in osm.generalized, descending \in BOOLEAN :
       OnApplyGeneralization(tolerance, descending)
  \/ OnSelectPoi
  \/ \E th \in PoiThresholds, descending \in BOOLEAN :
       find_new_key(osm) >= -MaxNewKeys /\ OnConnectPoi(th, descending)
  \/ \E descending \in BOOLEAN :
       OnShowPartitions(IndexOrder(osm, descending))
  \/ \E f \in StreetFilters, descending \in BOOLEAN :
       OnFilterStreets(f, IndexOrder(osm, descending))
  \/ OnApplyFilter
  \/ \E descending \in BOOLEAN :
       OnRemoveFilter(IndexOrder(osm, descending))

SpecEdit == InitEdit /\ [][NextEdit]_vars

\* ------------------- specification: connect_partitions pass by pass
\* __on_connect_partitions up to the while loop of connect_partitions: g is
\* the state the recalculation left
CPStarted(g, th, order, descending) ==
  IF g.err # ""
    THEN Leave("connect_partitions", g, FALSE) /\ cp' = CPIdle
  ELSE /\ Leave("get_partitions", g, ~pf.exists \/ pf.recalculate)
       /\ cp' = [running |-> TRUE, th |-> th, order |-> order,
                 descending |-> descending, parts |-> 1,
                 largest |-> g.pf.largest_partition, chosen |-> 0,
                 tried |-> {}]

CPBegin(th, descending) ==
  /\ menu.connect_partitions
  /\ ~cp.running
  /\ CPStarted(CPRecalculated(get_partitions(Ctx(osm, pf),
                                             IndexOrder(osm, descending)),
                              IndexOrder(osm, descending)),
               th, IndexOrder(osm, descending), descending)
  /\ UNCHANGED <<menu, dp, poi>>

\* the end of a pass of the while loop (lines 145-147): g1 is the state
\* connect_partition left; an exception ends the call
CPPassed(g1, partition_id) ==
  /\ Leave("connect_partition", g1, FALSE)
  /\ cp' = IF g1.err # ""
             THEN [cp EXCEPT !.running = FALSE, !.chosen = partition_id,
                             !.tried = @ \cup {partition_id}]
             ELSE [cp EXCEPT !.parts = IF g1.ret = 0 THEN @ + 1 ELSE @,
                             !.chosen = partition_id,
                             !.tried = @ \cup {partition_id}]

\* one pass of the while loop of connect_partitions (lines 135-147)
CPPass ==
  /\ cp.running
  /\ Cardinality(DOMAIN pf.partitions) > cp.parts
  /\ CPPassed(connect_partition(Ctx(osm, pf), NextPartition(Ctx(osm, pf)),
                                cp.th, cp.order, cp.descending),
              NextPartition(Ctx(osm, pf)))
  /\ UNCHANGED <<menu, dp, poi>>

\* the while loop ends and connect_partitions returns parts (lines 135, 151)
CPReturn ==
  /\ cp.running
  /\ Cardinality(DOMAIN pf.partitions) <= cp.parts
  /\ last' = Ran("connect_partitions", [Ctx(osm, pf) EXCEPT !.ret = cp.parts],
                 FALSE)
  /\ cp' = [cp EXCEPT !.running = FALSE]
  /\ UNCHANGED <<osm, pf, menu, dp, poi>>

InitConnect == \E file \in FilesOf(MaxEditWays) : Opened(Parse(file))

\* the thresholds the partition dialogue may return, a short search distance
\* among them
ConnectThresholds ==
  PartitionThresholds \cup
    {[th EXCEPT !.search = ShortSearch] :
       th \in {t \in PartitionThresholds : t.connection = 1}}

NextConnect ==
  \/ \E th \in ConnectThresholds, descending \in BOOLEAN :
       find_new_key(osm) >= -MaxNewKeys /\ CPBegin(th, descending)
  \/ CPPass
  \/ CPReturn
  \/ \E f \in StreetFilters, descending \in BOOLEAN :
       ~cp.running /\ OnFilterStreets(f, IndexOrder(osm, descending))
  \/ ~cp.running /\ OnApplyFilter
  \/ \E descending \in BOOLEAN :
       ~cp.running /\ OnRemoveFilter(IndexOrder(osm, descending))
  \/ \E descending \in BOOLEAN :
       ~cp.running /\ OnShowPartitions(IndexOrder(osm, descending))

SpecConnect == InitConnect /\ [][NextConnect]_vars

\* what a pass of the while loop leaves in cp: the partition it took, parts
\* or parts + 1, and whether the call goes on; the steps that do this to cp
\* are the steps of CPPass
CPPassTaken ==
  /\ cp.running
  /\ Cardinality(DOMAIN pf.partitions) > cp.parts
  /\ cp' \in {[cp EXCEPT !.running = r, !.parts = p,
                         !.chosen = NextPartition(Ctx(osm, pf)),
                         !.tried = @ \cup {NextPartition(Ctx(osm, pf))}] :
               r \in BOOLEAN, p \in {cp.parts, cp.parts + 1}}

\* the interpreter runs the loop on and returns when its condition fails
SpecConnectFair == SpecConnect /\ WF_cp(CPPassTaken) /\ WF_vars(CPReturn)

\* --------------- specification: connect_partitions with three partitions
\* the ways of the files of this specification: three of the residential
\* streets 41..45, with or without the motorway 46; in the file of 41, 42
\* and 43 the street 42 lies between the two others
MergeWays ==
  (41 :> <<1, 2>>) @@ (42 :> <<3, 4>>) @@ (43 :> <<5, 6>>) @@
  (44 :> <<2, 3>>) @@ (45 :> <<4, 6>>) @@ (46 :> <<2, 4, 3>>)

MergeHighway == [id \in 41..46 |-> IF id = 46 THEN "motorway" ELSE "residential"]

MergeFiles ==
  {[id \in ids |-> MergeHighway[id]] :
     ids \in {ws \in SUBSET DOMAIN MergeWays :
                Cardinality(ws \ {46}) = 3}}

\* the thresholds of the partition dialogue with size threshold 0, a short
\* search distance among them
MergeThresholds == {th \in ConnectThresholds : th.size = 0}

InitMerge ==
  \E file \in MergeFiles :
    Opened(ParseInput(FileNodes, FileCafes, MergeWays, file))

NextMerge ==
  \/ \E th \in MergeThresholds, descending \in BOOLEAN :
       find_new_key(osm) >= -MaxNewKeys /\ CPBegin(th, descending)
  \/ CPPass
  \/ CPReturn
  \/ \E descending \in BOOLEAN :
       ~cp.running /\ OnFilterStreets({"motorway"}, IndexOrder(osm, descending))
  \/ ~cp.running /\ OnApplyFilter
  \/ \E descending \in BOOLEAN :
       ~cp.running /\ OnRemoveFilter(IndexOrder(osm, descending))

SpecMerge == InitMerge /\ [][NextMerge]_vars

\* ------------------------------ specification: ids of new objects
\* the state a call on the store starts from; the record of the calls that
\* returned a new object is kept over the session
StoreCtx == [Ctx(osm, pf) EXCEPT !.calls = last.calls]

\* what a call on the store leaves
StoreCalled(op, g) ==
  /\ Leave(op, g, FALSE)
  /\ UNCHANGED <<menu, dp, cp, poi>>

\* insert_new_node(lat, lon, {}, attr)
StoreInsertNode(lat, lon) ==
  /\ Len(last.calls) < MaxNewObjects
  /\ StoreCalled("insert_new_node",
                 Called(StoreCtx, insert_new_node(StoreCtx, lat, lon),
                        "insert_new_node", <<lat, lon>>))

\* append_new_street(tags, [a, b], attr), as connect_by_node calls it
StoreAppendStreet(a, b) ==
  /\ Len(last.calls) < MaxNewObjects
  /\ a \in osm.node_avl /\ b \in osm.node_avl /\ a # b
  /\ StoreCalled("append_new_street",
                 Called(StoreCtx, append_new_street(StoreCtx, <<a, b>>),
                        "append_new_street", <<a, b>>))

\* delete_way(way), as remove_partition and remove_filtered_streets call it
StoreDeleteWay(way) ==
  /\ way \in osm.way_avl
  /\ StoreCalled("delete_way", delete_way(StoreCtx, way))

\* remove_unused_nodes(), the menu item "remove unused nodes"
StoreRemoveUnused ==
  /\ menu.remove_nodes
  /\ StoreCalled("remove_unused_nodes", remove_unused_nodes(StoreCtx))

InitStore == \E file \in FilesOf(MaxEditWays) : Opened(Parse(file))

NextStore ==
  \/ StoreInsertNode(0, 2)
  \/ \E a \in {4, -1} : StoreAppendStreet(a, 2)
  \/ \E way \in osm.way_avl : StoreDeleteWay(way)
  \/ StoreRemoveUnused

SpecStore == InitStore /\ [][NextStore]_vars

\* ------------------------------------ specification: distance_points
\* the largest coordinate of the points handed to distance_points
MaxCoord == 2

\* the distance up to which two points that are not equal count as too close
\* for GEOD.inv
NearDistance == 1

DistancePoints == {NewNode(lon, lat) : lon \in 0..MaxCoord, lat \in 0..MaxCoord}

\* GEOD.inv(lon1, lat1, lon2, lat2) where it returns: forward azimuth, back
\* azimuth and distance. An azimuth is kept as a vector <<east, north>> that
\* points in its direction, azimuth 0 is <<0, 1>> and azimuth 180 <<0, -1>>;
\* for equal points the forward azimuth is 0 and the back azimuth 0 or 180
GeodInv(point1, point2) ==
  IF point1.lon = point2.lon /\ point1.lat = point2.lat
    THEN {<<<<0, 1>>, back, <<0, 1>>>> : back \in {<<0, 1>>, <<0, -1>>}}
    ELSE {<<<<point2.lon - point1.lon, point2.lat - point1.lat>>,
            <<point1.lon - point2.lon, point1.lat - point2.lat>>,
            distance_points(point1, point2)>>}

\* the outcomes of GEOD.inv: a triple, or ValueError for points that are too
\* close but not equal (lines 19-22)
GeodInvOutcomes(point1, point2) ==
  {[raised |-> "", value |-> v] : v \in GeodInv(point1, point2)} \cup
  IF /\ ~(point1.lon = point2.lon /\ point1.lat = point2.lat)
     /\ SqLen(point1.lon - point2.lon, point1.lat - point2.lat)
          <= NearDistance * NearDistance
    THEN {[raised |-> "ValueError", value |-> <<>>]}
    ELSE {}

\* distance_points after GEOD.inv came back with inv (lines 33-40): the
\* except branch unpacks the float 0.0 into three names, which raises
\* TypeError
distance_points_try(g, inv) ==
  IF inv.raised = "" THEN [g EXCEPT !.ret = inv.value]
  ELSE IF inv.raised = "ValueError" THEN Raise(g, "TypeError")
  ELSE Raise(g, inv.raised)

\* a call distance_points(point1, point2); the call of GEOD.inv and what it
\* did are kept in the record
DistanceCalled(point1, point2, inv) ==
  /\ last' = Ran("distance_points",
                 distance_points_try(
                   [Ctx(osm, pf) EXCEPT !.calls =
                      <<[fn |-> "GEOD.inv", args |-> <<point1, point2>>,
                         raised |-> inv.raised]>>], inv),
                 FALSE)
  /\ UNCHANGED <<osm, pf, menu, dp, cp, poi>>

OnDistancePoints ==
  \E point1 \in DistancePoints, point2 \in DistancePoints :
    \E inv \in GeodInvOutcomes(point1, point2) :
      DistanceCalled(point1, point2, inv)

InitDistance == \E file \in FilesOf(1) : Opened(Parse(file))

NextDistance == OnDistancePoints

SpecDistance == InitDistance /\ [][NextDistance]_vars

\* -------------- specification: projection splices and the street index
\* the ways a file of this specification may hold: way 19 passes node 2
\* twice, way 20 is a building without highway tag
SpliceWays ==
  (13 :> <<2, 4, 3>>) @@ (14 :> <<1, 4, 6>>) @@ (19 :> <<1, 2, 4, 2, 3>>) @@
  (20 :> <<5, 6>>)

SpliceHighway ==
  (13 :> "motorway") @@ (14 :> "residential") @@ (19 :> "residential") @@
  (20 :> "")

SpliceFiles ==
  {[id \in ids |-> SpliceHighway[id]] :
     ids \in {ws \in SUBSET DOMAIN SpliceWays :
                ws \cap {13, 14, 19} # {} /\ Cardinality(ws) <= MaxEditWays}}

\* a and b follow each other somewhere in the sequence s
Consecutive(s, a, b) == \E i \in 1..(Len(s) - 1) : s[i] = a /\ s[i + 1] = b

\* the state a call of connect_by_projection starts from; the request and
\* the store before it are kept in the record
SpliceCtx(node, street, segment_start, segment_end) ==
  [StoreCtx EXCEPT !.calls =
     Append(@, [fn |-> "splice",
                args |-> <<node, street, segment_start, segment_end>>,
                before |-> osm, after |-> osm, ret |-> 0])]

\* connect_by_projection(osm_object, node, street, mode) with the mode
\* __distance_point_to_line gives for node and the two nodes of the street
SpliceInto(node, street, segment_start, segment_end, mode) ==
  /\ Len(mode) = 3
  /\ StoreCalled("connect_by_projection",
                 connect_by_projection(
                   SpliceCtx(node, street, segment_start, segment_end),
                   node, street, mode))

Splice(node, street, segment_start, segment_end) ==
  /\ Len(last.calls) < MaxNewObjects
  /\ find_new_key(osm) >= -MaxNewKeys
  /\ street \in osm.street_tree
  /\ node \in osm.node_avl \ SeqToSet(osm.ways[street].nodes)
  /\ segment_start \in SeqToSet(osm.ways[street].nodes)
  /\ segment_end \in SeqToSet(osm.ways[street].nodes)
  /\ segment_start # segment_end
  /\ SpliceInto(node, street, segment_start, segment_end,
                distance_mode_point_line(osm.nodes, segment_start,
                                         segment_end, node)[2])

InitSplice ==
  \E file \in SpliceFiles, deleted \in {"", "residential"} :
    Opened(IF deleted = ""
             THEN ParseInput(FileNodes, FileCafes, SpliceWays, file)
             ELSE CreateDeletedWay(
                    ParseInput(FileNodes, FileCafes, SpliceWays, file),
                    21, deleted))

\* the calls of a session up to the first that raises; the POI at node 5
\* or node 1 is spliced into a street, or tied to node 2 by a new street
NextSplice ==
  \/ \E node \in {1, 5}, street \in osm.street_tree :
       \E segment_start \in osm.node_avl, segment_end \in osm.node_avl :
         last.err = "" /\ Splice(node, street, segment_start, segment_end)
  \/ \E a \in {1, 5} : last.err = "" /\ StoreAppendStreet(a, 2)
  \/ \E way \in osm.street_tree : last.err = "" /\ StoreDeleteWay(way)

SpecSplice == InitSplice /\ [][NextSplice]_vars

\* -------------------------- specification: connecting points of interest
\* the thresholds of the POI dialogue, a short search distance among them
PoiSearches ==
  PoiThresholds \cup {[th EXCEPT !.search = ShortSearch] : th \in PoiThresholds}

\* Poi.connect_poi(poi_thresholds) on the selected nodes
PoiCall(th, descending) ==
  /\ menu.connect_poi
  /\ Leave("connect_poi",
           connect_poi(Ctx(osm, pf), poi, th, IndexOrder(osm, descending),
                       descending),
           FALSE)
  /\ UNCHANGED <<menu, dp, cp, poi>>

InitPoi == \E file \in FilesOf(MaxEditWays) : Opened(Parse(file))

NextPoi ==
  \/ OnSelectPoi
  \/ \E th \in PoiSearches, descending \in BOOLEAN :
       find_new_key(osm) >= -MaxNewKeys /\ PoiCall(th, descending)
  \/ \E descending \in BOOLEAN :
       OnShowPartitions(IndexOrder(osm, descending))

SpecPoi == InitPoi /\ [][NextPoi]_vars

\* ------------------------ specification: a point of interest with address
\* the largest address threshold the POI dialogue returns
MaxAddress == 5

\* two streets of two nodes, way 31 along lat 0 and way 32 along lat 6, and
\* the POI, node 5, between them
AddressNodes(lon, lat) ==
  (1 :> <<0, 0>>) @@ (2 :> <<2, 0>>) @@ (3 :> <<0, 6>>) @@ (4 :> <<2, 6>>) @@
  (5 :> <<lon, lat>>)

AddressWays == (31 :> <<1, 2>>) @@ (32 :> <<3, 4>>)

\* the name tags of the ways: way 32 has none
StreetNames == (31 :> "Main St")

\* the addr:street tag of the POI
PoiAddress == "Main St"

AddressThresholds ==
  [search : {SearchThreshold}, projection : {0, MaxTolerance},
   address : 0..MaxAddress]

\* Poi.connect_poi(poi_thresholds) with the one POI selected
AddressCall(th, descending) ==
  /\ menu.connect_poi
  /\ \E poi_node \in poi :
       Leave("connect_poi",
             ConnectAddressedNode(Ctx(osm, pf), StreetNames, poi_node,
                                  PoiAddress, th,
                                  IndexOrder(osm, descending)),
             FALSE)
  /\ UNCHANGED <<menu, dp, cp, poi>>

InitAddress ==
  \E lon \in (-2)..4, lat \in 1..5 :
    Opened(ParseInput(AddressNodes(lon, lat), {5}, AddressWays,
                      [w \in DOMAIN AddressWays |-> "residential"]))

NextAddress ==
  \/ OnSelectPoi
  \/ \E th \in AddressThresholds, descending \in BOOLEAN :
       AddressCall(th, descending)

SpecAddress == InitAddress /\ [][NextAddress]_vars

\* ----------------------- specification: one network and small partitions
\* nodes of the scenario files: 1..10 make the network, the others lie away
\* from it in pairs
ScenarioNodes ==
  [n \in 1..20 |-> IF n <= 6 THEN <<4 * (n - 1), 0>>
                   ELSE IF n <= 10 THEN <<12, 4 * (n - 6)>>
                   ELSE <<8 * (n - 11), 40 + 4 * (n % 2)>>]

\* the ways of two nodes a scenario file takes three of
SmallWays ==
  (21 :> <<11, 12>>) @@ (22 :> <<13, 14>>) @@ (25 :> <<15, 16>>) @@
  (26 :> <<17, 18>>) @@ (27 :> <<19, 20>>)

\* the ways the network of ten nodes may be made of
Networks ==
  { (23 :> <<1, 2, 3, 4, 5, 6, 7, 8, 9, 10>>),
    (23 :> <<1, 2, 3, 4, 5>>) @@ (24 :> <<5, 6, 7, 8, 9, 10>>),
    (23 :> <<1, 2, 3, 4, 5, 6>>) @@ (24 :> <<4, 7, 8, 9, 10>>),
    (24 :> <<1, 2, 3>>) @@ (23 :> <<3, 4, 5, 6, 7, 8, 9, 10>>) }

\* the ways of a scenario file: a network and three of the small ways
ScenarioWays ==
  {network @@ [w \in small |-> SmallWays[w]] :
     network \in Networks,
     small \in {s \in SUBSET DOMAIN SmallWays : Cardinality(s) = 3}}

\* the nodes the ways refer to
NodesOf(ways) == UNION {SeqToSet(ways[w]) : w \in DOMAIN ways}

InitScenario ==
  \E ways \in ScenarioWays :
    Opened(ParseInput([n \in NodesOf(ways) |-> ScenarioNodes[n]], {}, ways,
                      [w \in DOMAIN ways |-> "residential"]))

\* the thresholds of the scenario: the size threshold is not 0
ScenarioThresholds == {th \in PartitionThresholds : th.size = SizeThreshold}

NextScenario ==
  \/ \E descending \in BOOLEAN :
       OnShowPartitions(IndexOrder(osm, descending))
  \/ \E th \in ScenarioThresholds, descending \in BOOLEAN :
       OnConnectPartitions(th, descending)

SpecScenario == InitScenario /\ [][NextScenario]_vars

\* ------------------------------------- specification: douglas_peucker
\* the way segments douglas_peucker is called with: at least two nodes
Segments ==
  UNION {[1..n -> DOMAIN FileNodes] : n \in 2..MaxSegLen}

\* a call douglas_peucker(way_segment, tolerance) on nodes of the file
InitDP ==
  /\ osm = Parse(<<>>)
  /\ pf = NoFinder
  /\ menu = MenuOpened
  /\ last = Ran("douglas_peucker", Ctx(osm, pf), FALSE)
  /\ cp = CPIdle
  /\ poi = {}
  /\ \E way_segment \in Segments, tolerance \in 0..MaxTolerance :
       dp = DPStart(way_segment, tolerance)

\* one iteration of the while loop of douglas_peucker
DPIterate ==
  /\ dp.stack # <<>>
  /\ Len(dp.stack) <= MaxStack
  /\ dp' = [DPKept(DPStep(osm.nodes, dp)) EXCEPT !.turn = 1 - @]
  /\ UNCHANGED <<osm, pf, menu, last, cp, poi>>

NextDP == DPIterate

SpecDP == InitDP /\ [][NextDP]_vars

\* the interpreter runs the loop on as long as its condition holds
SpecDPFair == SpecDP /\ WF_vars(DPIterate)

\* ------------------------------------------------------------- claims
\* the streets labeling walks: the ways of the street index not filtered
OpenStreets == {w \in osm.street_tree : ~osm.ways[w].filtered}

\* the edges of the street graph with the filtered streets left out
OpenEdges ==
  UNION {{{osm.ways[w].nodes[i], osm.ways[w].nodes[i + 1]} :
            i \in 1..(Len(osm.ways[w].nodes) - 1)} : w \in OpenStreets}

OpenNodes == UNION {SeqToSet(osm.ways[w].nodes) : w \in OpenStreets}

\* the nodes joined to those of S by a path of open edges
RECURSIVE Reach(_)
Reach(S) ==
  LET T == S \cup {m \in OpenNodes : \E n \in S : {n, m} \in OpenEdges}
  IN IF T = S THEN S ELSE Reach(T)

Label(n) == osm.nodes[n].partition_id

\* C1: after find_partitions a node has a label > 0 iff it lies on a street
\* that is not filtered, the nodes of such a street carry the street's
\* label, and two nodes have the same label > 0 exactly when a path of
\* streets that are not filtered joins them.
C1_LabelsAreComponents ==
  last.found =>
    /\ \A n \in osm.node_avl : Label(n) > 0 <=> n \in OpenNodes
    /\ \A w \in OpenStreets : \A n \in SeqToSet(osm.ways[w].nodes) :
         Label(n) = osm.ways[w].partition_id
    /\ \A n \in OpenNodes, m \in OpenNodes :
         (Label(n) = Label(m)) <=> m \in Reach({n})

\* C10: for every non-empty table labeling produces, find_largest_partition
\* returns the id of a live partition with the most nodes and, among those
\* with the most nodes, the most streets.
C10_LargestIsMaximal ==
  LET parts == pf.partitions
      res == find_largest_partition(parts)
      size(p) == Cardinality(parts[p].nodes)
      count(p) == Cardinality(parts[p].streets)
  IN DOMAIN parts # {} =>
       /\ res[3] = ""
       /\ res[1] \in DOMAIN parts
       /\ \A p \in DOMAIN parts :
            \/ size(p) < size(res[1])
            \/ size(p) = size(res[1]) /\ count(p) <= count(res[1])

\* C2: every node and every way of the store whose partition label is
\* p > 0 is a member of the Partition object with id p of the partition
\* table, and of no other Partition object of the table.
C2_LabeledAreMembers ==
  pf.exists =>
    /\ \A n \in osm.node_avl :
         Label(n) > 0 =>
           /\ Label(n) \in DOMAIN pf.partitions
           /\ \A p \in DOMAIN pf.partitions :
                n \in pf.partitions[p].nodes <=> p = Label(n)
    /\ \A w \in osm.way_avl :
         osm.ways[w].partition_id > 0 =>
           /\ osm.ways[w].partition_id \in DOMAIN pf.partitions
           /\ \A p \in DOMAIN pf.partitions :
                w \in pf.partitions[p].streets <=> p = osm.ways[w].partition_id

\* ------------------------------------------- claims: douglas_peucker
\* douglas_peucker has returned: the loop ended with an empty stack
DPReturned == dp.way_segment # <<>> /\ dp.stack = <<>>

\* a <= t for a distance a and an integer t >= 0
DLeqInt(a, t) == a[1] <= t * t * a[2]

\* the tolerance is at least the distance of every interior point of the
\* segment to the chord from its first to its last node
ToleranceCoversChord ==
  \A i \in 2..(Len(dp.way_segment) - 1) :
    DLeqInt(distance_point_line(osm.nodes, dp.way_segment[1],
                                dp.way_segment[Len(dp.way_segment)],
                                dp.way_segment[i]),
            dp.tolerance)

\* C7: when the tolerance is greater than or equal to the largest distance
\* of an interior point to the chord first-last (equality included),
\* douglas_peucker returns exactly [first, last].
C7_ChordWithinTolerance ==
  (DPReturned /\ ToleranceCoversChord) =>
    dp.new_way = <<dp.way_segment[1], dp.way_segment[Len(dp.way_segment)]>>

\* the result is way_segment at strictly increasing positions, the first
\* and the last position among them
IsEndpointSubsequence(result, way_segment) ==
  \E pos \in SUBSET (1..Len(way_segment)) :
    /\ 1 \in pos /\ Len(way_segment) \in pos
    /\ Len(result) = Cardinality(pos)
    /\ \A k \in 1..Len(result) : result[k] = way_segment[DictOrder(pos)[k]]

\* C8: for every segment of at least two nodes and every tolerance >= 0,
\* 0 included, douglas_peucker comes to return with an empty stack, and what
\* it returns is a subsequence of the segment at strictly increasing
\* positions that starts with the first and ends with the last node.
C8_Terminates ==
  <>(DPReturned /\ IsEndpointSubsequence(dp.new_way, dp.way_segment))

\* ----------------------------------------- claims: editing the network
Neighbours(n) == SeqToSet(osm.nodes[n].neighbours)

\* the ways of the way store that carry a highway tag
StoredStreets == {w \in osm.way_avl : osm.ways[w].highway # ""}

\* C3: for every street-tagged way in the store, each pair of consecutive
\* nodes of its node sequence are in each other's neighbour lists, after
\* import, connect_by_node, Way.insert_node and Way.apply_generalization in
\* every order the menu allows.
C3_ConsecutiveAreNeighbours ==
  \A w \in StoredStreets :
    \A i \in 1..(Len(osm.ways[w].nodes) - 1) :
      /\ osm.ways[w].nodes[i + 1] \in Neighbours(osm.ways[w].nodes[i])
      /\ osm.ways[w].nodes[i] \in Neighbours(osm.ways[w].nodes[i + 1])

\* a way of the file lost a node to apply_generalization, a way of the file
\* holds a node insert_node spliced in and connect_by_node made a street
C3_Witness ==
  /\ last.op = "apply_generalization" /\ last.err = ""
  /\ \E w \in StoredStreets :
       w > 0 /\ \E n \in SeqToSet(FileWays[w]) :
                  n \notin SeqToSet(osm.ways[w].nodes)
  /\ \E w \in StoredStreets :
       w > 0 /\ \E n \in SeqToSet(osm.ways[w].nodes) : n < 0
  /\ \E w \in StoredStreets : w < 0

\* the calls of a connect function the last handler made that returned
CallsOf(fn) ==
  {last.calls[i] : i \in {j \in 1..Len(last.calls) : last.calls[j].fn = fn}}

\* C5 as stated: after connect_by_node(a, b) a and b carry the same
\* partition id and a new way with the node sequence [a, b] is in the way
\* store and the street index, whatever the labels of a and b were.
C5_SameLabel ==
  \A c \in CallsOf("connect_by_node") :
    /\ c.after.nodes[c.args[1]].partition_id
         = c.after.nodes[c.args[2]].partition_id
    /\ c.ret \notin c.before.way_avl
    /\ c.ret \in c.after.way_avl /\ c.ret \in c.after.street_tree
    /\ c.after.ways[c.ret].nodes = c.args

\* C5, amended: after connect_by_node(a, b) a new way with the node sequence
\* [a, b] is in the way store and the street index; when the label of a was
\* positive the way takes it and a and b keep their labels, otherwise a and
\* the way take the label of b.
C5_LabelOfNewStreet ==
  \A c \in CallsOf("connect_by_node") :
    LET a == c.args[1]
        b == c.args[2]
    IN /\ c.ret \notin c.before.way_avl
       /\ c.ret \in c.after.way_avl /\ c.ret \in c.after.street_tree
       /\ c.after.ways[c.ret].nodes = <<a, b>>
       /\ c.after.nodes[b].partition_id = c.before.nodes[b].partition_id
       /\ IF c.before.nodes[a].partition_id > 0
            THEN /\ c.after.nodes[a].partition_id
                      = c.before.nodes[a].partition_id
                 /\ c.after.ways[c.ret].partition_id
                      = c.before.nodes[a].partition_id
            ELSE /\ c.after.nodes[a].partition_id
                      = c.before.nodes[b].partition_id
                 /\ c.after.ways[c.ret].partition_id
                      = c.before.nodes[b].partition_id

\* connect_by_node returned for two nodes with different positive labels
C5_Witness ==
  \E c \in CallsOf("connect_by_node") :
    /\ c.before.nodes[c.args[1]].partition_id > 0
    /\ c.before.nodes[c.args[2]].partition_id > 0
    /\ c.before.nodes[c.args[1]].partition_id
         # c.before.nodes[c.args[2]].partition_id

\* how often x occurs in the list s
Count(s, x) == Cardinality({i \in 1..Len(s) : s[i] = x})

\* the coordinate c of the new node is the one of the given fraction of the
\* segment from c0 to c1, rounded to the grid
AtProjection(c, c0, c1, mode) ==
  2 * Abs(mode[3][2] * (c - c0) - mode[3][1] * (c1 - c0)) <= mode[3][2]

\* C6: after connect_by_projection(node, street, (start, end,
\* projected_length)) the synthetic node sits in the street's sequence
\* immediately between start and end at projected_length along the segment
\* from start, start and end each list it as neighbour and no longer list
\* each other through that segment, and its neighbours are exactly start,
\* end and the connected node.
C6_ProjectionSplice ==
  \A c \in CallsOf("connect_by_projection") :
    LET node == c.args[1]
        street == c.args[2]
        mode == c.args[3]
        start == mode[1]
        end == mode[2]
        new_node == c.after.ways[c.ret].nodes[2]
        old == c.before.ways[street].nodes
        new == c.after.ways[street].nodes
    IN /\ new_node \notin c.before.node_avl
       /\ new_node \in c.after.node_avl
       /\ c.after.ways[c.ret].nodes = <<node, new_node>>
       /\ \E i \in 1..(Len(old) - 1) :
            /\ old[i] = start /\ old[i + 1] = end
            /\ new = InsertAt(old, i + 1, new_node)
       /\ AtProjection(c.after.nodes[new_node].lon, c.before.nodes[start].lon,
                       c.before.nodes[end].lon, mode)
       /\ AtProjection(c.after.nodes[new_node].lat, c.before.nodes[start].lat,
                       c.before.nodes[end].lat, mode)
       /\ Count(c.after.nodes[start].neighbours, new_node) = 1
       /\ Count(c.after.nodes[end].neighbours, new_node) = 1
       /\ Count(c.after.nodes[start].neighbours, end)
            = Count(c.before.nodes[start].neighbours, end) - 1
       /\ Count(c.after.nodes[end].neighbours, start)
            = Count(c.before.nodes[end].neighbours, start) - 1
       /\ Len(c.after.nodes[new_node].neighbours) = 3
       /\ SeqToSet(c.after.nodes[new_node].neighbours) = {start, end, node}

\* connect_by_projection returned, with the new node strictly inside the
\* segment
C6_Witness ==
  \E c \in CallsOf("connect_by_projection") :
    LET new_node == c.after.ways[c.ret].nodes[2]
    IN /\ c.args[3][3][1] > 0
       /\ <<c.after.nodes[new_node].lon, c.after.nodes[new_node].lat>>
            \notin {<<c.after.nodes[n].lon, c.after.nodes[n].lat>> :
                      n \in {c.args[3][1], c.args[3][2]}}

\* the positions of way_nodes that generalize keeps in any case
Kept(way_nodes) ==
  {i \in 1..Len(way_nodes) :
     \/ i = 1 \/ i = Len(way_nodes)
     \/ Len(osm.nodes[way_nodes[i]].neighbours) # 2
     \/ osm.nodes[way_nodes[i]].poi > 0}

\* sub holds nodes of the list full, in the order of full and none twice
RECURSIVE InOrder(_, _)
InOrder(sub, full) ==
  IF sub = <<>> THEN TRUE
  ELSE IF full = <<>> THEN FALSE
  ELSE IF Head(sub) = Head(full) THEN InOrder(Tail(sub), Tail(full))
  ELSE InOrder(sub, Tail(full))

\* C9: for every street way, the sequence generalize(osm, t) stores under
\* key t starts with the way's first node, ends with the way's last node and
\* contains every node of the way that is a junction (neighbour count # 2)
\* or a POI (poi state > 0), in the original order and with no boundary node
\* twice.
C9_GeneralizedKeeps ==
  \A w \in osm.street_tree : \A t \in DOMAIN osm.ways[w].generalized :
    LET way_nodes == osm.ways[w].nodes
        new_way == osm.ways[w].generalized[t]
    IN /\ new_way # <<>>
       /\ new_way[1] = way_nodes[1]
       /\ new_way[Len(new_way)] = way_nodes[Len(way_nodes)]
       /\ \A i \in Kept(way_nodes) : way_nodes[i] \in SeqToSet(new_way)
       /\ InOrder(new_way, way_nodes)
       /\ Cardinality(SeqToSet(new_way)) = Len(new_way)

\* generalize ran on a way with a junction and a connected POI inside it
\* and dropped a node of it
C9_Witness ==
  /\ last.op = "generalize"
  /\ \E w \in osm.street_tree : \E t \in DOMAIN osm.ways[w].generalized :
       LET way_nodes == osm.ways[w].nodes
       IN /\ Len(osm.ways[w].generalized[t]) < Len(way_nodes)
          /\ \E i \in 2..(Len(way_nodes) - 1) :
               osm.nodes[way_nodes[i]].poi > 0
          /\ \E i \in 2..(Len(way_nodes) - 1) :
               Len(osm.nodes[way_nodes[i]].neighbours) > 2

\* ------------------------- claims: one network and small partitions
\* the partitions of the table with the given number of nodes
PartitionsOfSize(size) ==
  {p \in DOMAIN pf.partitions : Cardinality(pf.partitions[p].nodes) = size}

\* the ways of two nodes of the file
SmallStreets == {w \in DOMAIN osm.ways : w > 0 /\ Len(osm.ways[w].nodes) = 2}

\* C4: for three disjoint 2-node street ways plus one connected 10-node
\* street network labeling yields exactly 4 partitions, one of 10 nodes,
\* which is the largest, and three of 2 nodes; connect_partitions with the
\* size threshold 3 then removes the three 2-node partitions, their ways
\* leave the way store and the street index, and exactly 1 partition, the
\* one of 10 nodes, remains.
C4_SmallPartitionsRemoved ==
  /\ (last.op = "show_partitions" /\ last.found) =>
       /\ Cardinality(DOMAIN pf.partitions) = 4
       /\ Cardinality(PartitionsOfSize(10)) = 1
       /\ Cardinality(PartitionsOfSize(2)) = 3
       /\ pf.largest_partition \in PartitionsOfSize(10)
       /\ SmallStreets \subseteq osm.way_avl \cap osm.street_tree
  /\ last.op = "connect_partitions" =>
       /\ last.err = "" /\ last.ret = 1
       /\ Cardinality(DOMAIN pf.partitions) = 1
       /\ DOMAIN pf.partitions = PartitionsOfSize(10)
       /\ pf.largest_partition \in DOMAIN pf.partitions
       /\ SmallStreets \cap (osm.way_avl \cup osm.street_tree) = {}
       /\ Cardinality(SmallStreets) = 3
       /\ osm.way_avl = osm.street_tree
       /\ osm.way_avl = DOMAIN osm.ways \ SmallStreets

\* connect_partitions ran on the labeled scenario and took ways out of the
\* store
C4_Witness ==
  /\ last.op = "connect_partitions"
  /\ pf.exists
  /\ Cardinality(DOMAIN pf.partitions) = 1
  /\ Cardinality(osm.way_avl) < Cardinality(DOMAIN osm.ways)

\* ------------------------------------- claims: connect_partitions
\* connect_partitions has returned, and nothing ran since
CPReturned == last.op = "connect_partitions" /\ last.err = ""

\* C11: connect_partitions terminates for every street graph and every
\* bundle of thresholds: each pass of its loop takes a partition out of the
\* table or increments parts, the call comes to an end, and the value it
\* returns is the number of Partition objects left in the table.
C11_TerminatesWithCount ==
  /\ [][CPPass =>
          Cardinality(DOMAIN pf'.partitions) - cp'.parts
            < Cardinality(DOMAIN pf.partitions) - cp.parts]_vars
  /\ [](CPReturned => last.ret = Cardinality(DOMAIN pf.partitions))
  /\ (cp.running ~> ~cp.running)

\* a call of connect_partitions is in progress or was the last thing that
\* ran, and a largest partition was recorded when its loop began
CPLargestRecorded ==
  /\ cp.largest # 0
  /\ cp.running \/ last.op \in {"connect_partition", "connect_partitions"}

\* C12: during connect_partitions the partition recorded as largest is never
\* the one handed to connect_partition, and its id is in the partition table
\* from the start to the end of the call, whatever the thresholds are.
C12_LargestStays ==
  CPLargestRecorded =>
    /\ pf.largest_partition = cp.largest
    /\ cp.chosen # cp.largest
    /\ cp.largest \in DOMAIN pf.partitions

\* a pass was made while the largest partition was the first of the table:
\* the second was taken
C12_Witness ==
  /\ CPLargestRecorded
  /\ cp.chosen # 0
  /\ cp.largest < cp.chosen
  /\ cp.largest \in DOMAIN pf.partitions

\* ----------------------------------------- claims: ids of new objects
\* the ids of the nodes and ways of a store
StoreIds(o) == o.node_avl \cup o.way_avl

\* C13: every id find_new_key returns differs from the id of every node and
\* way of the store; it is -1 when no id of the store is negative and the
\* lowest id minus one otherwise; and over any sequence of insert_new_node,
\* append_new_street, delete_way and remove_unused_nodes every new id is
\* strictly smaller than every id given out before it in the session.
C13_NewKeysDescend ==
  \A i \in 1..Len(last.calls) :
    LET c == last.calls[i]
    IN /\ c.ret \notin StoreIds(c.before)
       /\ c.ret = IF \A id \in StoreIds(c.before) : id >= 0
                    THEN -1 ELSE MinOf(StoreIds(c.before)) - 1
       /\ \A j \in 1..(i - 1) : c.ret < last.calls[j].ret

\* C14: distance_points never raises; when GEOD.inv fails with ValueError
\* on points that are too close, the call returns the triple (0, 0, 0)
C14_DistanceNeverRaises ==
  last.op = "distance_points" =>
    /\ last.err = ""
    /\ last.calls[1].raised = "ValueError" =>
         last.ret = <<<<0, 1>>, <<0, 1>>, <<0, 1>>>>
\* the last request for a projection splice in the record
SpliceRequest ==
  last.calls[CHOOSE i \in 1..Len(last.calls) :
               /\ last.calls[i].fn = "splice"
               /\ \A j \in (i + 1)..Len(last.calls) :
                    last.calls[j].fn # "splice"]

SpliceNotConsecutive ==
  /\ last.op = "connect_by_projection"
  /\ ~Consecutive(SpliceRequest.before.ways[SpliceRequest.args[2]].nodes,
                  SpliceRequest.args[3], SpliceRequest.args[4])

\* C15: a projection splice between two nodes that do not follow each other
\* in the way's sequence signals a defect and leaves the graph as it was
\* before the call: no node more in the node store, no way sequence and no
\* neighbour list changed
C15_RefusedSpliceKeepsGraph ==
  SpliceNotConsecutive => (last.err # "" /\ osm = SpliceRequest.before)
\* the ways of the way store that carry a highway tag and are not marked
\* with action=delete
LiveStreets(o) ==
  {w \in o.way_avl : o.ways[w].highway # "" /\ w \notin o.way_delete}

\* C16: after any sequence of import, append_new_street, delete_way and
\* projection splices the keys of the street index are the ids of the ways
\* of the way store that carry a highway tag and are not marked as deleted
C16_StreetIndexMatches == osm.street_tree = LiveStreets(osm)

\* a street was appended, a node spliced into a street and the street of
\* the file deleted; the building and the way marked as deleted are in the
\* way store
C16_Witness ==
  /\ last.op = "delete_way" /\ last.err = ""
  /\ \E i \in 1..Len(last.calls) : last.calls[i].fn = "append_new_street"
  /\ \E i \in 1..Len(last.calls) : last.calls[i].fn = "connect_by_projection"
  /\ {20, 21} \subseteq osm.way_avl
  /\ osm.way_avl \cap {13, 14, 19} = {}
  /\ osm.street_tree # {}
\* a pass of connect_partitions whose connect_partition returned False
CPPassFalse ==
  /\ cp.running
  /\ last'.op = "connect_partition" /\ last'.err = "" /\ last'.ret = 0

\* C17: a connect_partition call that returns False leaves the way store, the
\* neighbour list and the label of every node, the street index and the
\* partition table as they were
C17_FalseLeavesUnchanged == [][CPPassFalse => (osm' = osm /\ pf' = pf)]_vars

\* connect_partition returned False for a partition of more than one node
\* while other partitions are in the table
C17_Witness ==
  /\ cp.running
  /\ last.op = "connect_partition" /\ last.err = "" /\ last.ret = 0
  /\ cp.chosen \in DOMAIN pf.partitions
  /\ Cardinality(pf.partitions[cp.chosen].nodes) > 1
  /\ Cardinality(DOMAIN pf.partitions) > 1
\* the streets of the store o within the search distance of node p
PoiNear(o, p, th) ==
  {w \in o.street_tree :
     intersects(o.ways[w].box, create_node_box(o.nodes[p], th.search))}

\* the connect calls the step recorded for node p
PoiWays(p) == {i \in 1..Len(last'.calls) : last'.calls[i].args[1] = p}

\* the store with the POI marks of the next state
PoiMarked ==
  [osm EXCEPT !.nodes =
     [n \in DOMAIN @ |-> [@[n] EXCEPT !.poi = osm'.nodes[n].poi]]]

PoiSettled(th) ==
  /\ \A p \in poi :
       /\ osm'.nodes[p].poi \in {POI_CONNECTED, POI_NOT_CONNECTED}
       /\ osm.nodes[p].neighbours # <<>> =>
            (osm'.nodes[p].poi = POI_CONNECTED /\ PoiWays(p) = {})
       /\ (osm.nodes[p].neighbours = <<>> /\ PoiNear(osm', p, th) = {}) =>
            /\ osm'.nodes[p].poi = POI_NOT_CONNECTED
            /\ PoiWays(p) = {}
            /\ osm'.nodes[p].neighbours = <<>>
       /\ osm'.nodes[p].poi = POI_CONNECTED =>
            osm'.nodes[p].neighbours # <<>>
  /\ (\A p \in poi : osm.nodes[p].neighbours # <<>>
                       \/ PoiNear(osm, p, th) = {}) =>
       osm' = PoiMarked

\* C18: when connect_poi returns every selected POI is connected or not
\* connected; a POI that has neighbours is marked connected and no way is
\* made for it; a POI without a street within the search distance is marked
\* not connected and the graph stays as it is; a POI marked connected has a
\* neighbour
C18_PoiSettled ==
  [][\A th \in PoiSearches, descending \in BOOLEAN :
       (PoiCall(th, descending) /\ last'.err = "") => PoiSettled(th)]_vars

\* connect_poi returned with a POI that was on a street, marked connected
\* without a call, and a POI marked not connected
C18_Witness ==
  /\ last.op = "connect_poi" /\ last.err = "" /\ last.calls = <<>>
  /\ \E p \in poi, q \in poi :
       /\ osm.nodes[p].poi = POI_CONNECTED /\ osm.nodes[p].neighbours # <<>>
       /\ osm.nodes[q].poi = POI_NOT_CONNECTED
       /\ osm.nodes[q].neighbours = <<>>
\* a - b > t for distances a, b and an integer t >= 0
DDiffMoreInt(a, b, t) ==
  /\ ~DDiffLessInt(a, b, t)
  /\ (a[1] * b[2] - b[1] * a[2] - t * t * a[2] * b[2])
       * (a[1] * b[2] - b[1] * a[2] - t * t * a[2] * b[2])
     # 4 * t * t * b[1] * a[2] * a[2] * b[2]

\* the distance from the POI to the street w before the call
AddressDistance(w) == distance_node_street(Ctx(osm, pf), 5, w)[1]

\* the step made a street from the POI to a node of the street w
AddressConnectedTo(w) ==
  \E i \in 1..Len(last'.calls) :
    /\ last'.calls[i].fn = "connect_by_node"
    /\ last'.calls[i].args[1] = 5
    /\ last'.calls[i].args[2] \in SeqToSet(osm'.ways[w].nodes)

\* the POI is not on a street and the street without name is the nearer one
AddressCase ==
  /\ osm.nodes[5].neighbours = <<>>
  /\ DLess(AddressDistance(32), AddressDistance(31))

\* C19: a POI with addr:street=Main St outside any building, within the
\* search distance of a nearer street without name and of a farther street
\* named Main St, is connected to Main St when the address threshold is
\* larger than the difference of the two distances and to the nearer street
\* when it is smaller
C19_AddressDecides ==
  [][\A th \in AddressThresholds, descending \in BOOLEAN :
       (AddressCase /\ AddressCall(th, descending)) =>
         /\ DDiffLessInt(AddressDistance(31), AddressDistance(32),
                         th.address) =>
              (AddressConnectedTo(31) /\ ~AddressConnectedTo(32))
         /\ DDiffMoreInt(AddressDistance(31), AddressDistance(32),
                         th.address) =>
              (AddressConnectedTo(32) /\ ~AddressConnectedTo(31))]_vars
\* the handlers that change the structure of the street graph
StructuralChange == {"connect_poi", "apply_generalization", "apply_filter"}

\* the handlers that reset and relabel the partitions
PartitionOperation ==
  {"connect_partitions", "show_partitions", "filter_streets", "remove_filter"}

\* C20: a POI connection, a commit of a generalization and applying the
\* street filter leave the flag recalculate set; the flag stays set until
\* the next partition operation, which resets and relabels the partitions,
\* and is clear after it
C20_FlagUntilConsumed ==
  /\ []((last.op \in StructuralChange /\ last.err = "") => pf.recalculate)
  /\ [][(pf.recalculate /\ ~pf'.recalculate) =>
          last'.op \in PartitionOperation]_vars
  /\ []((last.op \in {"connect_partitions", "show_partitions"}
           /\ last.err = "") => ~pf.recalculate)
\* a pass of connect_partitions whose connect_partition made a connection
CPPassConnected ==
  /\ cp.running
  /\ last'.op = "connect_partition" /\ last'.err = "" /\ last'.ret = 1
  /\ \E i \in 1..Len(last'.calls) : last'.calls[i].fn = "connect_by_node"

\* the way the call recorded at position i made carries, with both its end
\* nodes, the id of a partition of the table that holds the nodes and the
\* streets the source partition had
CPWayMerged(i, source) ==
  /\ osm'.ways[last'.calls[i].ret].partition_id \in DOMAIN pf'.partitions
  /\ osm'.nodes[last'.calls[i].args[1]].partition_id =
       osm'.ways[last'.calls[i].ret].partition_id
  /\ osm'.nodes[last'.calls[i].args[2]].partition_id =
       osm'.ways[last'.calls[i].ret].partition_id
  /\ source.nodes \subseteq
       pf'.partitions[osm'.ways[last'.calls[i].ret].partition_id].nodes
  /\ source.streets \subseteq
       pf'.partitions[osm'.ways[last'.calls[i].ret].partition_id].streets

\* C21: after a connect_partition call that made a connection the source
\* partition is gone from the table, and every connecting way of the call
\* and both its end nodes carry the same partition id, that of a partition
\* of the table that holds all former members of the source
C21_ConnectedCarryLabel ==
  [][CPPassConnected =>
       /\ cp'.chosen \notin DOMAIN pf'.partitions
       /\ \A i \in 1..Len(last'.calls) :
            last'.calls[i].fn = "connect_by_node" =>
              CPWayMerged(i, pf.partitions[cp'.chosen])]_vars

\* connect_partitions has returned and left more than one partition
CPReturnedSeveral ==
  /\ ~cp.running
  /\ last.op = "connect_partitions" /\ last.err = ""
  /\ Cardinality(DOMAIN pf.partitions) > 1

\* C22: when connect_partitions has returned with more than one partition
\* left, every remaining partition other than the largest was passed to
\* connect_partition during that call
C22_RemainingWereTried ==
  CPReturnedSeveral =>
    \A p \in DOMAIN pf.partitions \ {pf.largest_partition} : p \in cp.tried

\* a pass of connect_partitions whose connect_partition raised at the merge:
\* self.__partitions.get(new_partition_id) was None
CPMergeRaised ==
  /\ cp.running
  /\ last'.op = "connect_partition" /\ last'.err = "AttributeError"

\* C23: in no pass of connect_partitions is the partition id chosen as the
\* target of the merge missing from the partition table
C23_TargetInTable == [][~CPMergeRaised]_vars

\* get_nearest_street and get_nearest_street_node of the node of a recorded
\* connect call for one street, in the store the call found
CallNear(c, street) ==
  get_nearest_street(Ctx(c.before, pf), c.args[1], <<street>>, <<0, Inf, <<>>>>)

CallNearNode(c, street) ==
  get_nearest_street_node(Ctx(c.before, pf), c.args[1], <<street>>, <<0, Inf>>)

\* the recorded call i is a connect_by_node that connect_partition made
\* itself, not the one connect_by_projection ends with
DirectCall(calls, i) ==
  /\ calls[i].fn = "connect_by_node"
  /\ ~\E j \in 1..Len(calls) :
        calls[j].fn = "connect_by_projection" /\ calls[j].ret = calls[i].ret

\* the call connected the node with the end of the street the node is
\* nearest to (AtStart, AtEnd)
DirectAtEnd(c, street) ==
  /\ Len(CallNear(c, street)[3]) = 1
  /\ c.args[2] = CallNear(c, street)[3][1]

\* the call connected the node with the nearest node of a street whose
\* nearest point lies on a segment, the node being less than t farther than
\* the projection
DirectOnSegment(c, street, t) ==
  /\ Len(CallNear(c, street)[3]) > 1
  /\ c.args[2] = CallNearNode(c, street)[1]
  /\ DDiffLessInt(CallNearNode(c, street)[2], CallNear(c, street)[2], t)

\* a connect_by_projection call: the nearest point lies on a segment and
\* the nearest node is at least t farther than the projection
ProjectedFar(c, t) ==
  /\ Len(CallNear(c, c.args[2])[3]) > 1
  /\ ~DDiffLessInt(CallNearNode(c, c.args[2])[2], CallNear(c, c.args[2])[2], t)

\* the decision of lines 395-413 for the recorded call i
ProjectionDecided(calls, i, t) ==
  /\ calls[i].fn = "connect_by_projection" => ProjectedFar(calls[i], t)
  /\ DirectCall(calls, i) =>
       \E street \in calls[i].before.street_tree :
         \/ DirectAtEnd(calls[i], street)
         \/ DirectOnSegment(calls[i], street, t)

\* a pass of the while loop of connect_partitions
CPPassStep == cp.running /\ last'.op = "connect_partition"

ProjectionPreferred(calls, i, t) ==
  /\ calls[i].fn = "connect_by_projection" =>
       ~DDiffMoreInt(CallNear(calls[i], calls[i].args[2])[2],
                     CallNearNode(calls[i], calls[i].args[2])[2], t)
  /\ DirectCall(calls, i) =>
       \E street \in calls[i].before.street_tree :
         \/ DirectAtEnd(calls[i], street)
         \/ /\ Len(CallNear(calls[i], street)[3]) > 1
            /\ DDiffMoreInt(CallNear(calls[i], street)[2],
                            CallNearNode(calls[i], street)[2], t)

TopCall(calls, i) ==
  DirectCall(calls, i) \/ calls[i].fn = "connect_by_projection"

\* the tuples connect_partition collects in the pass that is taken
PassCandidates ==
  Candidates(Ctx(osm, pf), NextPartition(Ctx(osm, pf)), cp.th.search, cp.order)

\* the distance of the tuple of a node
CandidateDistance(cands, node) ==
  (CHOOSE c \in cands : c[2] = node)[1]

\* the way the connection i reached carried a label other than the source's
TargetOfOther(calls, i, o, partition_id) ==
  \E w \in o.street_tree :
    /\ o.ways[w].partition_id # partition_id
    /\ IF calls[i].fn = "connect_by_projection"
         THEN calls[i].args[2] = w
         ELSE calls[i].args[2] \in SeqToSet(calls[i].before.ways[w].nodes)

\* the connections i < j were made in the order of the distances of their
\* tuples, by nodes at least the distance threshold apart
InOrderApart(calls, i, j, cands, o, t) ==
  /\ ~DLess(CandidateDistance(cands, calls[j].args[1]),
            CandidateDistance(cands, calls[i].args[1]))
  /\ ~DLessInt(distance_points(o.nodes[calls[i].args[1]],
                               o.nodes[calls[j].args[1]]), t)

\* a tuple nearer than the one of connection j was connected before j or
\* lies within the distance threshold of a node connected before j
NearerWasTried(calls, j, c, o, t) ==
  \E i \in 1..(j - 1) :
    /\ TopCall(calls, i)
    /\ \/ calls[i].args[1] = c[2]
       \/ DLessInt(distance_points(o.nodes[c[2]], o.nodes[calls[i].args[1]]), t)

\* what C25 says of the connections a pass recorded
WalkedInOrder(calls, cands, o, partition_id, th) ==
  /\ Cardinality({i \in 1..Len(calls) : TopCall(calls, i)}) <= th.connection
  /\ \A j \in 1..Len(calls) : TopCall(calls, j) =>
       /\ calls[j].args[1] \in {c[2] : c \in cands}
       /\ TargetOfOther(calls, j, o, partition_id)
       /\ \A i \in 1..(j - 1) : TopCall(calls, i) =>
            InOrderApart(calls, i, j, cands, o, th.distance)
       /\ \A c \in cands :
            DLess(c[1], CandidateDistance(cands, calls[j].args[1])) =>
              NearerWasTried(calls, j, c, o, th.distance)

\* C25: in one connect_partition call the tuples are tried in ascending
\* order of distance, at most connection_max connections are made, every
\* way a connection reached carried a label other than the source's, and
\* any two nodes of the source that were connected are at least the
\* distance threshold apart
C25_WalkInOrder ==
  [][CPPassStep =>
       WalkedInOrder(last'.calls, PassCandidates, osm,
                     NextPartition(Ctx(osm, pf)), cp.th)]_vars

\* a pass made two connections under a positive distance threshold
C25_Witness ==
  /\ last.op = "connect_partition" /\ last.err = ""
  /\ cp.th.distance > 0
  /\ Cardinality({i \in 1..Len(last.calls) : TopCall(last.calls, i)}) = 2

\* a step of an operation that calls reset_partitions: filter_streets, the
\* removal of the filter, or the partition display and connect_partitions
\* with the recalculation due
ResetStep ==
  \/ last'.op \in {"filter_streets", "remove_filter"}
  \/ /\ last'.op \in {"show_partitions", "connect_partitions", "get_partitions"}
     /\ pf.exists /\ pf.recalculate

\* the label went from the id of a partition a merge of connect_partition
\* took from the table to the id of a partition of the table
LabelMerged(old, new) ==
  /\ last'.op \in {"connect_partition", "connect_partitions"}
  /\ old > 0 /\ old \notin DOMAIN pf'.partitions
  /\ new \in DOMAIN pf'.partitions

\* delete_neighbours: apply_generalization took the node out of its street
LabelCleared(n, new) ==
  /\ last'.op = "apply_generalization"
  /\ new = 0 /\ osm'.nodes[n].neighbours = <<>>

\* C26 (amended): outside the operations that reset the partitions a label
\* that is -1 or positive changes only in the merge of connect_partition,
\* from the id of the source partition to the id of the target partition,
\* and in apply_generalization, which gives the nodes it takes out of a
\* street the label 0
C26_LabelsMoveByMerge ==
  [][~ResetStep =>
       /\ \A n \in DOMAIN osm.nodes :
            osm.nodes[n].partition_id \notin {0, osm'.nodes[n].partition_id}
              => \/ LabelMerged(osm.nodes[n].partition_id,
                                osm'.nodes[n].partition_id)
                 \/ LabelCleared(n, osm'.nodes[n].partition_id)
       /\ \A w \in DOMAIN osm.ways :
            osm.ways[w].partition_id \notin {0, osm'.ways[w].partition_id}
              => LabelMerged(osm.ways[w].partition_id,
                             osm'.ways[w].partition_id)]_vars

\* a merge has relabelled the nodes of the source partition
C26_Witness ==
  /\ last.op = "connect_partitions" /\ last.err = ""
  /\ Len(last.calls) > 0
  /\ \E n \in DOMAIN last.calls[1].before.nodes :
       /\ last.calls[1].before.nodes[n].partition_id > 0
       /\ last.calls[1].before.nodes[n].partition_id \notin DOMAIN pf.partitions
       /\ osm.nodes[n].partition_id \in DOMAIN pf.partitions

\* C26 as stated: outside the operations that reset the partitions no label
\* that is -1 or positive changes
C26_LabelsOnlyByReset ==
  [][~ResetStep =>
       /\ \A n \in DOMAIN osm.nodes :
            osm.nodes[n].partition_id # 0 =>
              osm'.nodes[n].partition_id = osm.nodes[n].partition_id
       /\ \A w \in DOMAIN osm.ways :
            osm.ways[w].partition_id # 0 =>
              osm'.ways[w].partition_id = osm.ways[w].partition_id]_vars

\* connect_poi reaches connect_by_address for the POI: the POI is not on a
\* street and the test of line 303 fails for the nearest street node
AddressReached ==
  /\ osm.nodes[5].neighbours = <<>>
  /\ ~have_same_coords(osm.nodes[5],
        osm.nodes[get_nearest_street_node(Ctx(osm, pf), 5, <<31, 32>>,
                                          <<0, Inf>>)[1]])

\* C27: connect_by_address connects the POI to the street of the requested
\* name whenever the distance to it exceeds the distance to the nearest
\* street by at most the address threshold, equality included, and to the
\* nearest street overall only when the difference exceeds the threshold
C27_NamedWithinThreshold ==
  [][\A th \in AddressThresholds, descending \in BOOLEAN :
       (AddressReached /\ AddressCall(th, descending)) =>
         IF DDiffMoreInt(AddressDistance(31), AddressDistance(32), th.address)
           THEN AddressConnectedTo(32) /\ ~AddressConnectedTo(31)
           ELSE AddressConnectedTo(31) /\ ~AddressConnectedTo(32)]_vars

\* what C28 says of one call way.apply_generalization(tolerance): g0 is the
\* state the call found, g1 the state it left
Committed(g0, g1, way, tolerance) ==
  /\ g1.err = ""
  /\ g1.osm.ways[way].nodes = g0.osm.ways[way].generalized[tolerance]
  /\ g1.osm.ways[way].nodeIDs = g0.osm.ways[way].generalized[tolerance]
  /\ g1.osm.ways[way].generalized = <<>>
  /\ \A n \in SeqToSet(g0.osm.ways[way].nodes) :
       IF n \in SeqToSet(g0.osm.ways[way].generalized[tolerance])
         THEN Len(g1.osm.nodes[n].neighbours) = Len(g0.osm.nodes[n].neighbours)
         ELSE /\ g1.osm.nodes[n].neighbours = <<>>
              /\ g1.osm.nodes[n].partition_id = 0

\* the call for one way in the state g0, when the way has the tolerance
\* memoized
CommitsWay(g0, way, tolerance) ==
  (g0.err = "" /\ tolerance \in DOMAIN g0.osm.ways[way].generalized) =>
    Committed(g0, apply_generalization(g0, way, tolerance), way, tolerance)

\* the calls the handler of 'apply generalization' makes, one for each way
\* of the index, each in the state the calls before it left
CommitsEach(ways, tolerance) ==
  \A k \in 1..Len(ways) :
    CommitsWay(ApplyToWays(Ctx(osm, pf), SubSeq(ways, 1, k - 1), tolerance),
               ways[k], tolerance)

\* C28: a call of Way.apply_generalization with a memoized tolerance makes
\* the node sequence and the id list of the way the stored sequence, empties
\* the memo, leaves every node that left the way without neighbours and with
\* label 0, and leaves the neighbour count of every retained node unchanged
C28_CommitReplaces ==
  [][\A tolerance \in osm.generalized, descending \in BOOLEAN :
       OnApplyGeneralization(tolerance, descending) =>
         CommitsEach(IndexOrder(osm, descending), tolerance)]_vars

\* a generalization was applied and took a node out of a way
C28_Witness ==
  /\ last.op = "apply_generalization" /\ last.err = ""
  /\ \E w \in osm.street_tree : \E n \in DOMAIN osm.nodes :
       /\ osm.nodes[n].neighbours = <<>>
       /\ n \notin SeqToSet(osm.ways[w].nodes)
       /\ \E i \in 1..(Len(osm.ways[w].nodes) - 1) :
            \E a \in {osm.ways[w].nodes[i]}, b \in {osm.ways[w].nodes[i + 1]} :
              /\ (osm.nodes[a].lon - osm.nodes[n].lon) * (osm.nodes[b].lon - osm.nodes[n].lon) <= 0
              /\ (osm.nodes[a].lat - osm.nodes[n].lat) * (osm.nodes[b].lat - osm.nodes[n].lat) <= 0
              /\ osm.nodes[n].lon \notin {osm.nodes[a].lon, osm.nodes[b].lon}

\* the way w is in the step what it was, its memo aside
WayKept(w) ==
  [osm'.ways[w] EXCEPT !.generalized = <<>>]
    = [osm.ways[w] EXCEPT !.generalized = <<>>]

\* the memo of the way w kept every entry it had; a street way of the index
\* has an entry under the tolerance, no other way got one
MemoExtended(w, tolerance) ==
  /\ \A t \in DOMAIN osm.ways[w].generalized :
       /\ t \in DOMAIN osm'.ways[w].generalized
       /\ osm'.ways[w].generalized[t] = osm.ways[w].generalized[t]
  /\ DOMAIN osm'.ways[w].generalized
       = DOMAIN osm.ways[w].generalized
           \cup (IF w \in osm.street_tree THEN {tolerance} ELSE {})

\* what C29 says of a step of generalize
OnlyMemoChanged(tolerance) ==
  /\ osm'.nodes = osm.nodes
  /\ DOMAIN osm'.ways = DOMAIN osm.ways
  /\ osm'.street_tree = osm.street_tree
  /\ osm'.way_avl = osm.way_avl /\ osm'.node_avl = osm.node_avl
  /\ pf' = pf /\ poi' = poi
  /\ \A w \in DOMAIN osm.ways : WayKept(w) /\ MemoExtended(w, tolerance)

\* apply_generalization of a way with a tolerance it has no entry for
\* leaves the state as it is
UnknownToleranceKept ==
  \A w \in DOMAIN osm.ways :
    \A t \in (GenTolerances \cup {0}) \ DOMAIN osm.ways[w].generalized :
      apply_generalization(Ctx(osm, pf), w, t) = Ctx(osm, pf)

\* C29: generalize(osm, t) changes nothing but the memo: the node sequence
\* of every way, the neighbours, label and POI state of every node and the
\* memo entries under other tolerances stay, and afterwards every street way
\* of the index has an entry under t; apply_generalization with a tolerance
\* that has no entry changes neither the way nor its memo
C29_GeneralizeFrame ==
  [][/\ \A tolerance \in GenTolerances :
          OnGeneralize(tolerance) => OnlyMemoChanged(tolerance)
     /\ UnknownToleranceKept]_vars

\* generalize ran for a second tolerance on a way it shortens
C29_Witness ==
  /\ last.op = "generalize" /\ last.err = ""
  /\ \E w \in osm.street_tree :
       /\ DOMAIN osm.ways[w].generalized = GenTolerances
       /\ \E t \in GenTolerances :
            Len(osm.ways[w].generalized[t]) < Len(osm.ways[w].nodes)

\* some street way of the way store has a and b as consecutive nodes
StreetJoins(a, b) ==
  \E w \in StoredStreets :
    \E i \in 1..(Len(osm.ways[w].nodes) - 1) :
      {osm.ways[w].nodes[i], osm.ways[w].nodes[i + 1]} = {a, b}

\* C30: two nodes are in each other's neighbour lists only if some street
\* way currently in the way store has them as consecutive nodes; after
\* delete_way no adjacency contributed solely by the deleted way remains
C30_NeighboursOfLiveStreets ==
  \A a \in DOMAIN osm.nodes :
    \A b \in SeqToSet(osm.nodes[a].neighbours) : StreetJoins(a, b)


\* the two points agree in longitude and in latitude within the tolerance
CoordsAgree(point1, point2) ==
  /\ Abs(point1.lon - point2.lon) <= TOLERANCE
  /\ Abs(point1.lat - point2.lat) <= TOLERANCE

\* the street node that connect_poi compares the POI with (poi.py 300-302)
NearestStreetNode ==
  get_nearest_street_node(Ctx(osm, pf), 5, <<31, 32>>, <<0, Inf>>)[1]

\* C31: connect_poi takes the same-coordinate connection of line 303 only
\* when the nearest street node agrees with the POI in both longitude and
\* latitude within the tolerance; have_same_coords is true exactly when
\* both differences are within the tolerance
C31_SameCoordsBothAxes ==
  [][\A th \in AddressThresholds, descending \in BOOLEAN :
       (osm.nodes[5].neighbours = <<>> /\ AddressCall(th, descending)) =>
         (have_same_coords(osm.nodes[5], osm.nodes[NearestStreetNode])
            <=> CoordsAgree(osm.nodes[5], osm.nodes[NearestStreetNode]))]_vars


\* ------------------ specification: the classification of a point against
\* a segment. Node 1 is the start of the segment, node 2 its end, node 3 the
\* point; two nodes of a file may have the same coordinates
SegmentEnds == {<<0, 0>>, <<2, 0>>, <<0, 2>>, <<2, 2>>}

SegmentNodes(b, lon, lat) ==
  (1 :> <<0, 0>>) @@ (2 :> b) @@ (3 :> <<lon, lat>>)

SegmentWays == (51 :> <<1, 2>>)

\* a call distance_mode_point_line(line_start, line_end, point)
OnDistanceModePointLine ==
  /\ \E ends \in {<<1, 2>>, <<2, 1>>} :
       last' = Ran("distance_mode_point_line",
                   [Ctx(osm, pf) EXCEPT
                      !.ret = distance_mode_point_line(osm.nodes, ends[1],
                                                       ends[2], 3),
                      !.calls = <<[fn |-> "distance_mode_point_line",
                                   args |-> <<ends[1], ends[2], 3>>]>>],
                   FALSE)
  /\ UNCHANGED <<osm, pf, menu, dp, cp, poi>>

InitSegment ==
  \E b \in SegmentEnds, lon \in (-MaxCoord)..(MaxCoord + 2), lat \in (-MaxCoord)..(MaxCoord + 2) :
    Opened(ParseInput(SegmentNodes(b, lon, lat), {}, SegmentWays,
                      [w \in DOMAIN SegmentWays |-> "residential"]))

NextSegment == OnDistanceModePointLine

SpecSegment == InitSegment /\ [][NextSegment]_vars

\* the arguments of the last classification as nodes of the store
SegmentStart == osm.nodes[last.calls[1].args[1]]

SegmentEnd == osm.nodes[last.calls[1].args[2]]

SegmentPoint == osm.nodes[last.calls[1].args[3]]

\* the segment is degenerate: its two ends have the same coordinates
Degenerate == CoordsAgree(SegmentStart, SegmentEnd)

\* the scalar product of start -> point and start -> end, and the squared
\* length of the segment: the projection of the point falls before the start
\* when the product is negative and beyond the end when it exceeds the
\* squared length
ProjectionProduct ==
  (SegmentPoint.lon - SegmentStart.lon) * (SegmentEnd.lon - SegmentStart.lon)
  + (SegmentPoint.lat - SegmentStart.lat) * (SegmentEnd.lat - SegmentStart.lat)

SegmentSqLen ==
  SqLen(SegmentEnd.lon - SegmentStart.lon, SegmentEnd.lat - SegmentStart.lat)

ProjectionOutside ==
  ProjectionProduct < 0 \/ ProjectionProduct > SegmentSqLen

\* C32: the classification returns the single-node mode [a] with the
\* distance from a to the point whenever the segment is degenerate, a
\* single-node mode whenever the projection of the point falls before a or
\* beyond b, and the three-element mode only when the projection falls
\* between a and b of a segment that is not degenerate
C32_ModeOfProjection ==
  last.op = "distance_mode_point_line" =>
    /\ Degenerate =>
         /\ last.ret[2] = <<last.calls[1].args[1]>>
         /\ last.ret[1] = distance_points(SegmentStart, SegmentPoint)
    /\ (~Degenerate /\ ProjectionOutside) => Len(last.ret[2]) = 1
    /\ Len(last.ret[2]) = 3 => ~Degenerate /\ ~ProjectionOutside


\* the least and the greatest longitude and latitude over the nodes that are
\* in the sequence of the way now
BoxOfNodes(o, way) ==
  LET lons == {o.nodes[o.ways[way].nodes[i]].lon : i \in DOMAIN o.ways[way].nodes}
      lats == {o.nodes[o.ways[way].nodes[i]].lat : i \in DOMAIN o.ways[way].nodes}
  IN <<MinOf(lons), MinOf(lats), MaxOf(lons), MaxOf(lats)>>

\* C33: in every reachable state the bounding box of each way equals the
\* minimum and maximum longitude and latitude over the nodes currently in
\* its sequence, also after a projection splice and after a generalization
\* that was applied
C33_BoxOfCurrentNodes ==
  \A way \in DOMAIN osm.ways :
    osm.ways[way].nodes # <<>> => osm.ways[way].box = BoxOfNodes(osm, way)


\* the finder and the store as reset_partitions leaves them when it is
\* called in the present state
AfterReset == reset_partitions(Ctx(osm, pf), IndexOrder(osm, FALSE))

\* no street and no node of the store carries a label or is filtered
LabelsGone(g) ==
  /\ \A way \in g.osm.way_avl :
       g.osm.ways[way].partition_id = 0 /\ ~g.osm.ways[way].filtered
  /\ \A n \in g.osm.node_avl :
       g.osm.nodes[n].partition_id = 0 /\ ~g.osm.nodes[n].filtered

\* the partition table holds no Partition object
TableEmpty(g) == DOMAIN g.pf.partitions = {}

\* C34: after reset_partitions returns, every street and every node of the
\* store has the label 0 and is not filtered, the list of filtered streets
\* is empty and the partition table holds no Partition object
C34_ResetRemovesAll ==
  [][(ResetStep /\ pf.exists) =>
       /\ LabelsGone(AfterReset)
       /\ AfterReset.pf.filtered_streets = {}
       /\ TableEmpty(AfterReset)]_vars


\* ---------------- specification: the removal of unused nodes from a store
\* that holds streets, a way that is neither street nor building, and a way
\* the file marks with action=delete
\* OSM_objects.__create_ways for a way with action=delete whose node
\* references the file kept: Way.__init__ builds the object from them, and
\* the way enters the way store and the list of deleted ways
CreateDeletedWayOf(o, id, refs, highway) ==
  LET o1 == WayInit(o, id, refs, highway)
  IN [o1 EXCEPT !.way_delete = @ \cup {id}, !.way_avl = @ \cup {id}]

\* way 22 has no highway tag and is no building, way 23 is marked as deleted
OtherWayNodes == <<1, 3>>

DeletedWayNodes == <<3, 6>>

UnusedStore(file, other, deleted) ==
  LET o0 == Parse(file)
      o1 == IF other THEN CreateWay(o0, 22, OtherWayNodes, "") ELSE o0
  IN IF deleted THEN CreateDeletedWayOf(o1, 23, DeletedWayNodes, "") ELSE o1

InitUnused ==
  \E file \in FilesOf(MaxEditWays), other \in BOOLEAN, deleted \in BOOLEAN :
    Opened(UnusedStore(file, other, deleted))

NextUnused ==
  \/ \E way \in osm.street_tree : StoreDeleteWay(way)
  \/ last.calls = <<>> /\ StoreAppendStreet(3, 2)
  \/ StoreRemoveUnused

SpecUnused == InitUnused /\ [][NextUnused]_vars

\* the nodes that some way of the way store has in its sequence
ReferencedNodes(o) == UNION {SeqToSet(o.ways[w].nodes) : w \in o.way_avl}

\* remove_unused_nodes ran in the step
RemovedUnused == last'.op = "remove_unused_nodes" /\ last'.err = ""

\* C35: remove_unused_nodes removes exactly the nodes without tags that no
\* way references: afterwards every node of the sequence of a way that is
\* still in the way store (street, building, other way or way marked as
\* deleted) and every node with tags is in the node store
C35_UnusedOnly ==
  [][(StoreRemoveUnused /\ RemovedUnused) =>
       /\ ReferencedNodes(osm') \cap osm.node_avl \subseteq osm'.node_avl
       /\ {n \in osm.node_avl : osm.nodes[n].cafe} \subseteq osm'.node_avl
       /\ osm.node_avl \ osm'.node_avl =
            {n \in osm.node_avl :
               ~osm.nodes[n].cafe /\ n \notin ReferencedNodes(osm)}]_vars


\* C37: no connection operation creates a way whose two endpoints are the
\* same node, and no node is in its own neighbour list
C37_NoSelfConnection ==
  /\ \A way \in osm.way_avl :
       (way < 0 /\ Len(osm.ways[way].nodes) = 2) =>
         osm.ways[way].nodes[1] # osm.ways[way].nodes[2]
  /\ \A n \in osm.node_avl : n \notin SeqToSet(osm.nodes[n].neighbours)



\* ------------- specification: connect_partitions on a file whose largest
\* partition lies beyond the search distance of the others
\* street 61 lies far from the streets 62, 63 and 64, which lie near one
\* another
FarNodes ==
  (1 :> <<0, 20>>) @@ (2 :> <<4, 20>>) @@ (3 :> <<8, 20>>) @@
  (4 :> <<0, 0>>) @@ (5 :> <<4, 0>>) @@ (6 :> <<0, 3>>) @@ (7 :> <<4, 3>>) @@
  (8 :> <<8, 3>>)

FarWays ==
  (61 :> <<1, 2, 3>>) @@ (62 :> <<4, 5>>) @@ (63 :> <<6, 7>>) @@
  (64 :> <<7, 8>>)

FarFiles ==
  {[id \in ids |-> "residential"] :
     ids \in {ws \in SUBSET DOMAIN FarWays : Cardinality(ws) >= 2}}

InitFar ==
  \E file \in FarFiles : Opened(ParseInput(FarNodes, {}, FarWays, file))

NextFar ==
  \/ \E th \in MergeThresholds, descending \in BOOLEAN :
       find_new_key(osm) >= -MaxNewKeys /\ CPBegin(th, descending)
  \/ CPPass
  \/ CPReturn

SpecFar == InitFar /\ [][NextFar]_vars

\* C38: whenever the recalculation flag is clear, get_largest_partition
\* returns the id of a partition of the table whose number of nodes is
\* maximal among the partitions of the table, also after connect_partitions
\* merged or removed partitions (the states between two handlers, no call
\* of connect_partitions in progress)
C38_LargestIsMaximal ==
  (/\ pf.exists /\ ~pf.recalculate /\ DOMAIN pf.partitions # {}
   /\ ~cp.running /\ last.err = "") =>
    /\ pf.largest_partition \in DOMAIN pf.partitions
    /\ \A id \in DOMAIN pf.partitions :
         Cardinality(pf.partitions[id].nodes)
           <= Cardinality(pf.partitions[pf.largest_partition].nodes)


\* ------------------------------------ buildings (geo_utils, app/poi.py)
\* the tags of the files with buildings: the ways tagged building=yes, the
\* nodes tagged building=entrance, and the addr:street tag of a node ("" when
\* it has none; no building and no entrance carries one)
BuildingTagged == {33, 34, 35, 36}

EntranceTagged == {10}

AddressOf(node) == IF node = 5 THEN PoiAddress ELSE ""

\* is_building; 0 stands for None. is_area: the first and the last node
\* reference of the way are the same
is_building(o, building) ==
  /\ building # 0
  /\ o.ways[building].nodeIDs[1]
       = o.ways[building].nodeIDs[Len(o.ways[building].nodeIDs)]
  /\ building \in BuildingTagged

\* is_inside_polygon: the test is_area of line 140, then the even-odd rule
\* over the edges p1 -> p2 the loop of lines 152-161 goes through; index i
\* of the loop is 0..n
is_inside_polygon(o, node, way) ==
  LET polygon == o.ways[way].nodes
      nodeIDs == o.ways[way].nodeIDs
      n == Len(polygon)
      q == o.nodes[node]
      p1(i) == o.nodes[polygon[IF i = 0 THEN 1 ELSE ((i - 1) % n) + 1]]
      p2(i) == o.nodes[polygon[(i % n) + 1]]
      min(a, b) == IF a < b THEN a ELSE b
      max(a, b) == IF a > b THEN a ELSE b
      \* node.x <= xinters, with xinters =
      \* (node.y - p1.y) * (p2.x - p1.x) / (p2.y - p1.y) + p1.x
      left(a, b) ==
        IF b.lat > a.lat
          THEN (q.lon - a.lon) * (b.lat - a.lat)
                 <= (q.lat - a.lat) * (b.lon - a.lon)
          ELSE (q.lon - a.lon) * (b.lat - a.lat)
                 >= (q.lat - a.lat) * (b.lon - a.lon)
      crosses(i) ==
        /\ q.lat > min(p1(i).lat, p2(i).lat)
        /\ q.lat <= max(p1(i).lat, p2(i).lat)
        /\ q.lon <= max(p1(i).lon, p2(i).lon)
        /\ p1(i).lon = p2(i).lon \/ left(p1(i), p2(i))
  IN /\ nodeIDs[1] = nodeIDs[Len(nodeIDs)]
     /\ Cardinality({i \in 0..n : crosses(i)}) % 2 # 0

\* Poi.get_adjacent_buildings: the buildings whose box meets the box around
\* the node, in the order the index returns them. The building index holds
\* the ways without highway tag that are tagged building=yes and not marked
\* as deleted (__create_ways)
get_adjacent_buildings(g, node, threshold, descending) ==
  LET building_tree == {w \in g.osm.way_avl \ g.osm.way_delete :
                          /\ g.osm.ways[w].highway = ""
                          /\ w \in BuildingTagged}
      hit(w) == intersects(g.osm.ways[w].box,
                           create_node_box(g.osm.nodes[node], threshold))
  IN SelectSeq(IF descending THEN Descending(building_tree)
                             ELSE DictOrder(building_tree), hit)

\* Poi.get_nearest_building: the first building of the list with the least
\* distance; 0 stands for None. distance_poi_building is the least distance
\* to a segment of the outline
get_nearest_building(o, node, buildings) ==
  LET distance_poi_building(building) ==
        LET bnodes == o.ways[building].nodes
            D == {distance_point_line(o.nodes, bnodes[i], bnodes[i + 1],
                                      node) : i \in 1..(Len(bnodes) - 1)}
        IN IF D = {} THEN Inf
           ELSE CHOOSE dist \in D : \A e \in D : ~DLess(e, dist)
      d(i) == distance_poi_building(buildings[i])
      first(i) == /\ DLess(d(i), Inf)
                  /\ \A j \in 1..(i - 1) : DLess(d(i), d(j))
                  /\ \A j \in (i + 1)..Len(buildings) : ~DLess(d(j), d(i))
  IN IF \E i \in 1..Len(buildings) : first(i)
       THEN buildings[CHOOSE i \in 1..Len(buildings) : first(i)]
       ELSE 0

\* connect_by_building from line 160 on, for a building with the entrance
\* given (line 164-176) or without entrance (0, lines 179-184); neither the
\* entrance nor the building has an address
ConnectInside(g, g1, names, poi_node, entrance, streets, th) ==
  IF entrance # 0
    THEN IF g1.err # "" THEN g1
         ELSE IF AddressOf(poi_node) # ""
           THEN connect_by_address(g1, names, entrance, AddressOf(poi_node),
                                   streets, th.projection, th.address)
         ELSE connect_with_nearest_street(g1, entrance, streets,
                                          th.projection)
  ELSE IF AddressOf(poi_node) # ""
    THEN connect_by_address(g, names, poi_node, AddressOf(poi_node), streets,
                            th.projection, th.address)
  ELSE connect_with_nearest_street(g, poi_node, streets, th.projection)

\* Poi.connect_by_building; get_building_entrance gives the nodes of the
\* building tagged as entrance, and the buildings of the files have at most
\* one
connect_by_building(g, names, poi_node, building, streets, th) ==
  IF ~(/\ is_building(g.osm, building)
       /\ is_inside_polygon(g.osm, poi_node, building))
    THEN [g EXCEPT !.ret = 0]
  ELSE IF SeqToSet(g.osm.ways[building].nodes) \cap EntranceTagged = {}
    THEN ConnectInside(g, g, names, poi_node, 0, streets, th)
  ELSE ConnectInside(g,
         connect_by_node(g, poi_node,
                         CHOOSE e \in SeqToSet(g.osm.ways[building].nodes)
                                        \cap EntranceTagged : TRUE),
         names, poi_node,
         CHOOSE e \in SeqToSet(g.osm.ways[building].nodes)
                        \cap EntranceTagged : TRUE,
         streets, th)

\* connect_poi, lines 312-313: connect_with_nearest_street, when nothing
\* connected the node before; each strategy that is invoked is recorded with
\* what it returned
TryNearest(g3, poi_node, streets, th) ==
  IF g3.err = "" /\ g3.ret = 0
    THEN Called(g3,
                connect_with_nearest_street(g3, poi_node, streets,
                                            th.projection),
                "connect_with_nearest_street", <<poi_node>>)
    ELSE g3

\* a connect_poi that tries connect_by_address whatever connect_by_building
\* returned
TryAddressAlways(g2, names, poi_node, streets, th) ==
  IF g2.err = "" /\ AddressOf(poi_node) # ""
    THEN Called(g2,
                connect_by_address(g2, names, poi_node, AddressOf(poi_node),
                                   streets, th.projection, th.address),
                "connect_by_address", <<poi_node, AddressOf(poi_node)>>)
    ELSE g2

\* connect_poi, lines 310-311: connect_by_address for a node with addr:street
TryAddress(g2, names, poi_node, streets, th) ==
  IF g2.err = "" /\ g2.ret = 0 /\ AddressOf(poi_node) # ""
    THEN Called(g2,
                connect_by_address(g2, names, poi_node, AddressOf(poi_node),
                                   streets, th.projection, th.address),
                "connect_by_address", <<poi_node, AddressOf(poi_node)>>)
    ELSE g2

\* connect_poi, lines 308-309: connect_by_building
TryBuilding(g1, names, poi_node, nearest_building, streets, th) ==
  IF g1.err = "" /\ g1.ret = 0
    THEN Called(g1,
                connect_by_building(g1, names, poi_node, nearest_building,
                                    streets, th),
                "connect_by_building", <<poi_node, nearest_building>>)
    ELSE g1

\* connect_poi, lines 303-304: the connection to a street node with the
\* same coordinates
TrySame(g, poi_node, nearest_node) ==
  IF have_same_coords(g.osm.nodes[poi_node], g.osm.nodes[nearest_node])
    THEN Called(g, connect_by_node(g, poi_node, nearest_node),
                "have_same_coords", <<poi_node, nearest_node>>)
    ELSE [g EXCEPT !.ret = 0]

\* connect_poi, lines 296-320, for one node that is not a street node, once
\* the streets and the buildings around it are known
ConnectBuildingStreets(g, names, poi_node, streets, buildings, th) ==
  MarkConnected(
    TryNearest(
      TryAddress(
        TryBuilding(
          TrySame(g, poi_node,
                  get_nearest_street_node(g, poi_node, streets,
                                          <<0, Inf>>)[1]),
          names, poi_node,
          get_nearest_building(g.osm, poi_node, buildings), streets, th),
        names, poi_node, streets, th),
      poi_node, streets, th),
    poi_node)

\* ------------- specification: connect_poi on files with buildings
\* streets 31 (Main St) and 32, the corners 6..9 of a building, the entrance
\* 10 on its outline, the corners 11..14 of a building in its courtyard, and
\* the POI: node 5 with addr:street or node 15 without
BuildingNodes(poi_node, lon, lat) ==
  (1 :> <<0, 0>>) @@ (2 :> <<6, 0>>) @@ (3 :> <<0, 8>>) @@ (4 :> <<6, 8>>) @@
  (6 :> <<1, 2>>) @@ (7 :> <<5, 2>>) @@ (8 :> <<5, 6>>) @@ (9 :> <<1, 6>>) @@
  (10 :> <<3, 2>>) @@
  (11 :> <<2, 3>>) @@ (12 :> <<4, 3>>) @@ (13 :> <<4, 5>>) @@ (14 :> <<2, 5>>) @@
  (poi_node :> <<lon, lat>>)

\* 33 is the closed outline, 36 the closed outline with the entrance, 35 the
\* outline that is not closed, 34 the building in the courtyard
BuildingWays ==
  (31 :> <<1, 2>>) @@ (32 :> <<3, 4>>) @@ (33 :> <<6, 7, 8, 9, 6>>) @@
  (34 :> <<11, 12, 13, 14, 11>>) @@ (35 :> <<6, 7, 8, 9>>) @@
  (36 :> <<6, 10, 7, 8, 9, 6>>)

BuildingFiles ==
  {[id \in {31, 32} \cup bs |-> IF id \in {31, 32} THEN "residential" ELSE ""] :
     bs \in {{}, {33}, {36}, {35}, {33, 34}}}

\* the streets within the search distance of the POI (poi.py 295)
StreetsAround(poi_node, th, descending) ==
  get_adjacent_streets(Ctx(osm, pf), poi_node, th.search,
                       IndexOrder(osm, descending))

\* Poi.connect_poi for the one POI of the file: a street node is marked as
\* connected (288-290), a node without streets around it as not connected
BuildingCall(th, descending) ==
  /\ menu.connect_poi
  /\ \E poi_node \in poi :
       Leave("connect_poi",
             IF osm.nodes[poi_node].neighbours # <<>>
               THEN [Ctx(osm, pf) EXCEPT
                       !.osm.nodes[poi_node].poi = POI_CONNECTED]
             ELSE IF StreetsAround(poi_node, th, descending) = <<>>
               THEN [Ctx(osm, pf) EXCEPT
                       !.osm.nodes[poi_node].poi = POI_NOT_CONNECTED]
             ELSE ConnectBuildingStreets(
                    Ctx(osm, pf), StreetNames, poi_node,
                    StreetsAround(poi_node, th, descending),
                    get_adjacent_buildings(Ctx(osm, pf), poi_node, th.search,
                                           descending),
                    th),
             FALSE)
  /\ UNCHANGED <<menu, dp, cp, poi>>

InitBuilding ==
  \E poi_node \in {5, 15}, lon \in 0..6, lat \in 1..7, file \in BuildingFiles :
    Opened(ParseInput(BuildingNodes(poi_node, lon, lat), {poi_node},
                      BuildingWays, file))

NextBuilding ==
  \/ OnSelectPoi
  \/ \E th \in AddressThresholds, descending \in BOOLEAN :
       BuildingCall(th, descending)

SpecBuilding == InitBuilding /\ [][NextBuilding]_vars


\* the strategies of connect_poi in the order of lines 303-313
Strategies ==
  <<"have_same_coords", "connect_by_building", "connect_by_address",
    "connect_with_nearest_street">>

Rank(fn) == CHOOSE i \in 1..Len(Strategies) : Strategies[i] = fn

\* the strategies the last connect_poi invoked, in the order of their
\* invocation, each with what it returned and the store before and after it
Invoked ==
  SelectSeq(last.calls, LAMBDA c : c.fn \in SeqToSet(Strategies))

\* the node lies within the closed outline of the way; the outlines of the
\* files are rectangles with sides along the axes
InsideRing(o, node, way) ==
  /\ way # 0
  /\ Len(o.ways[way].nodes) >= 4
  /\ o.ways[way].nodes[1] = o.ways[way].nodes[Len(o.ways[way].nodes)]
  /\ WayBox(o.nodes, o.ways[way].nodes)[1] <= o.nodes[node].lon
  /\ o.nodes[node].lon <= WayBox(o.nodes, o.ways[way].nodes)[3]
  /\ WayBox(o.nodes, o.ways[way].nodes)[2] <= o.nodes[node].lat
  /\ o.nodes[node].lat <= WayBox(o.nodes, o.ways[way].nodes)[4]

\* C36: for the POI connect_poi processes the strategies run in the order
\* same-coordinate connection, connect_by_building, connect_by_address,
\* connect_with_nearest_street; a later strategy is invoked only after
\* connect_by_building was tried and every strategy tried before it returned
\* failure; connect_by_building creates ways only when the POI lies inside
\* the closed outline of the nearest building; connect_by_address is tried
\* only for a POI with the tag addr:street
C36_StrategiesInOrder ==
  (last.op = "connect_poi" /\ last.err = "") =>
    /\ \A i \in 1..Len(Invoked), j \in 1..Len(Invoked) :
         i < j => /\ Rank(Invoked[i].fn) < Rank(Invoked[j].fn)
                  /\ Invoked[i].ret = 0
    /\ \A j \in 1..Len(Invoked) :
         /\ Rank(Invoked[j].fn) > 2 =>
              \E i \in 1..(j - 1) : Invoked[i].fn = "connect_by_building"
         /\ (/\ Invoked[j].fn = "connect_with_nearest_street"
             /\ AddressOf(Invoked[j].args[1]) # "") =>
              \E i \in 1..(j - 1) : Invoked[i].fn = "connect_by_address"
         /\ Invoked[j].fn = "connect_by_address" =>
              AddressOf(Invoked[j].args[1]) # ""
         /\ (/\ Invoked[j].fn = "connect_by_building"
             /\ Invoked[j].after.way_avl # Invoked[j].before.way_avl) =>
              InsideRing(Invoked[j].before, Invoked[j].args[1],
                         Invoked[j].args[2])

\* connect_by_building found the POI outside the nearest building and
\* returned failure, then connect_by_address connected the POI
C36_Witness ==
  /\ last.op = "connect_poi" /\ last.err = ""
  /\ Len(Invoked) = 2
  /\ Invoked[1].fn = "connect_by_building" /\ Invoked[1].ret = 0
  /\ Invoked[1].args[2] # 0
  /\ Invoked[2].fn = "connect_by_address" /\ Invoked[2].ret # 0

====
